---- MODULE Spec2Model ----
(***************************************************************************)
(* Verification model of the worm game simulation core: the worm lifecycle *)
(* and fall physics (worm.py), the per-tick combat and respawn resolution  *)
(* (game.py), the tombstone loot (tombstone.py), the thrown charges        *)
(* (dynamite.py), the blast damage (explosion.py) and the destructible     *)
(* terrain (terrain.py).                                                   *)
(*                                                                         *)
(* Time is counted in whole time units, TimeScale units to the second, so  *)
(* every timer of the source (seconds, float) is an integer here.  The     *)
(* laser battery is kept in 1/TimeScale percent for the same reason.       *)
(* Positions are continuous in the source; what the geometry decides       *)
(* (who stands in a tool footprint, who lands from a fall, who touches a   *)
(* tombstone or the goal) is an input of the tick.                         *)
(***************************************************************************)
EXTENDS Integers, Sequences, FiniteSets, TLC

(***************************************************************************)
(* Bounds of the model                                                     *)
(***************************************************************************)
NumWorms == 2
TimeScale == 1
MaxDt == 1
MaxLevel == 2
MaxEvents == 2
GridWidth == 8
GridHeight == 8
MaxDigs == 2
MaxCharges == 12

(***************************************************************************)
(* Program constants (src/src/config.py, src/src/worm.py)                  *)
(***************************************************************************)
TILE_SIZE == 8
UI_HEIGHT == 162
WORM_RADIUS == 12
DRILL_WIDTH == WORM_RADIUS * 3
DRILL_DEPTH == 40
TORCH_RADIUS == 30
TORCH_RANGE == 80
TORCH_GAS_COST == 10
LASER_WIDTH == 16
DYNAMITE_RADIUS == 96
DYNAMITE_COUNT_START == 10
DYNAMITE_FUSE_TIME == 2
DYNAMITE_BASE_DAMAGE == 70
EXPLOSION_MIN_DAMAGE == 10
DRILL_DAMAGE == 50
LASER_DAMAGE == 10
TORCH_DAMAGE == 30
RESPAWN_TIME == 2
SPAWN_PROTECTION_TIME == 2
TOMBSTONE_RESOURCE_PERCENTAGE == 20
STARTING_GAS == 100
MAX_GAS == 200
GAS_BOTTLE_AMOUNT == 50
GAS_REFILL_AMOUNT == 50
max_hp == 100
LASER_BATTERY_FULL == 100
LASER_SHOT_COST == 10
LASER_RECHARGE_RATE == 10
LASER_RAPID_USES == 10
LASER_COOLDOWN == 5

None == "None"
NoWorm == 0
HUMAN_PLAYERS == 2
Worms == 1..NumWorms
tools == <<"drill", "dynamite", "torch", "laser">>

Max(a, b) == IF a >= b THEN a ELSE b
Min(a, b) == IF a <= b THEN a ELSE b

\* F applied to the value of e: the state a loop body starts from is
\* computed once, as in the source, however often the body reads it
Apply(F(_), e) == CHOOSE r \in {F(x) : x \in {e}} : TRUE

VARIABLES worms, tombstones, level, events, since_death, damage_log,
          tiles, digs, last_dig, loot_log, blast_log, body

vars == <<worms, tombstones, level, events, since_death, damage_log,
          tiles, digs, last_dig, loot_log, blast_log, body>>

terrain_vars == <<tiles, digs, last_dig>>
game_vars == <<worms, tombstones, level, events, since_death, damage_log>>
log_vars == <<loot_log, blast_log>>
fall_vars == <<body>>

NoBlasts == {}
\* body: the vertical physics state of the first worm (SpecFall)
Standing == [y |-> 0, vel_y |-> 0, on_ground |-> TRUE, left_y |-> 0,
             floor_y |-> 0, damage |-> 0]

(***************************************************************************)
(* Worm.__init__: the fields of a freshly constructed worm                 *)
(***************************************************************************)
Worm ==
    [hp |-> max_hp,
     gas |-> STARTING_GAS,
     dynamite_count |-> DYNAMITE_COUNT_START,
     thrown_dynamites |-> <<>>,
     charging_power |-> FALSE,
     laser_battery |-> LASER_BATTERY_FULL * TimeScale,
     laser_use_count |-> 0,
     laser_cooldown_timer |-> 0,
     current_tool_index |-> 0,
     dig_request |-> None,
     is_dead |-> FALSE,
     is_respawning |-> FALSE,
     spawn_protection |-> 0,
     kills |-> 0,
     deaths |-> 0,
     fall_deaths |-> 0,
     self_deaths |-> 0,
     tool_used_this_frame |-> None,
     respawn_timer |-> 0]

current_tool(worm) == tools[worm.current_tool_index + 1]

(***************************************************************************)
(* Worm.take_damage: the worm after the call and whether the caller has    *)
(* to handle a death (the source returns False or a dict)                  *)
(***************************************************************************)
take_damage_unclamped(worm, damage) ==
    IF worm.is_dead \/ worm.is_respawning \/ worm.spawn_protection > 0
    THEN [worm |-> worm, needs_death_handling |-> FALSE]
    ELSE LET hit == [worm EXCEPT !.hp = worm.hp - damage]
         IN  [worm |-> hit,
              needs_death_handling |->
                  (hit.hp <= 0 /\ ~hit.is_dead /\ ~hit.is_respawning)]

take_damage_unprotected(worm, damage) ==
    IF worm.is_dead \/ worm.is_respawning
    THEN [worm |-> worm, needs_death_handling |-> FALSE]
    ELSE LET hit == [worm EXCEPT !.hp = Max(0, worm.hp - damage)]
         IN  [worm |-> hit,
              needs_death_handling |->
                  (hit.hp <= 0 /\ ~hit.is_dead /\ ~hit.is_respawning)]

take_damage(worm, damage) ==
    IF worm.is_dead \/ worm.is_respawning \/ worm.spawn_protection > 0
    THEN [worm |-> worm, needs_death_handling |-> FALSE]
    ELSE LET hit == [worm EXCEPT !.hp = Max(0, worm.hp - damage)]
         IN  [worm |-> hit,
              needs_death_handling |->
                  (hit.hp <= 0 /\ ~hit.is_dead /\ ~hit.is_respawning)]

(***************************************************************************)
(* Worm.die, tombstone share: int(pool * 0.2 + 0.5), the percentage kept   *)
(* as a whole number of hundredths                                         *)
(***************************************************************************)
tombstone_share(pool) ==
    (pool * TOMBSTONE_RESOURCE_PERCENTAGE + 50) \div 100

(***************************************************************************)
(* Worm.die(killer_worm, new_x, new_y) on worm v of ws: the worms after    *)
(* the call (the killer's kill counter is another worm's field) and the    *)
(* tombstone data returned (a sequence, empty for the source's None when   *)
(* the worm is already dying)                                              *)
(***************************************************************************)
\* Worm.die that also counts a kill for a worm that killed itself
die_credits_self(ws, v, killer_worm) ==
    IF ws[v].is_dead \/ ws[v].is_respawning
    THEN [worms |-> ws, tombstone_data |-> <<>>]
    ELSE LET tombstone_gas == Max(1, tombstone_share(ws[v].gas))
             tombstone_dynamite ==
                 Max(0, tombstone_share(ws[v].dynamite_count))
             dying == [ws[v] EXCEPT
                 !.is_dead = FALSE,
                 !.is_respawning = TRUE,
                 !.deaths = @ + 1,
                 !.respawn_timer = RESPAWN_TIME * TimeScale,
                 !.fall_deaths = IF killer_worm = NoWorm THEN @ + 1 ELSE @,
                 !.self_deaths = IF killer_worm = v THEN @ + 1 ELSE @,
                 !.gas = Max(0, @ - tombstone_gas),
                 !.dynamite_count = Max(0, @ - tombstone_dynamite)]
             ws1 == [ws EXCEPT ![v] = dying]
             ws2 == IF killer_worm # NoWorm
                    THEN [ws1 EXCEPT ![killer_worm].kills = @ + 1]
                    ELSE ws1
         IN  [worms |-> ws2,
              tombstone_data |-> <<[gas |-> tombstone_gas,
                                    dynamite |-> tombstone_dynamite,
                                    deceased_name |-> v]>>]

die(ws, v, killer_worm) ==
    IF ws[v].is_dead \/ ws[v].is_respawning
    THEN [worms |-> ws, tombstone_data |-> <<>>]
    ELSE LET tombstone_gas == Max(1, tombstone_share(ws[v].gas))
             tombstone_dynamite ==
                 Max(0, tombstone_share(ws[v].dynamite_count))
             dying == [ws[v] EXCEPT
                 !.is_dead = FALSE,
                 !.is_respawning = TRUE,
                 !.deaths = @ + 1,
                 !.respawn_timer = RESPAWN_TIME * TimeScale,
                 !.fall_deaths = IF killer_worm = NoWorm THEN @ + 1 ELSE @,
                 !.self_deaths = IF killer_worm = v THEN @ + 1 ELSE @,
                 !.gas = Max(0, @ - tombstone_gas),
                 !.dynamite_count = Max(0, @ - tombstone_dynamite)]
             ws1 == [ws EXCEPT ![v] = dying]
             ws2 == IF killer_worm # NoWorm /\ killer_worm # v
                    THEN [ws1 EXCEPT ![killer_worm].kills = @ + 1]
                    ELSE ws1
         IN  [worms |-> ws2,
              tombstone_data |-> <<[gas |-> tombstone_gas,
                                    dynamite |-> tombstone_dynamite,
                                    deceased_name |-> v]>>]

(***************************************************************************)
(* Worm.respawn                                                            *)
(***************************************************************************)
respawn(worm) ==
    IF ~worm.is_respawning
    THEN worm
    ELSE [worm EXCEPT
             !.is_respawning = FALSE,
             !.is_dead = FALSE,
             !.hp = max_hp,
             !.spawn_protection = SPAWN_PROTECTION_TIME * TimeScale,
             !.respawn_timer = 0,
             !.gas = STARTING_GAS,
             !.dynamite_count = DYNAMITE_COUNT_START,
             !.dig_request = None,
             !.tool_used_this_frame = None]

(***************************************************************************)
(* Worm.update_respawn_timer                                               *)
(***************************************************************************)
update_respawn_timer(worm, dt) ==
    IF worm.is_respawning /\ worm.respawn_timer > 0
    THEN [worm |-> [worm EXCEPT !.respawn_timer = @ - dt],
          ready |-> (worm.respawn_timer - dt <= 0)]
    ELSE [worm |-> worm, ready |-> FALSE]

(***************************************************************************)
(* One record per take_damage call of a tick: whether the worm was dying   *)
(* or protected when called, what the call returned and whether it left    *)
(* the worm as it was                                                      *)
(***************************************************************************)
damage_call(before, result) ==
    [blocked |-> (before.is_respawning \/ before.spawn_protection > 0),
     needs_death_handling |-> result.needs_death_handling,
     unchanged |-> (result.worm = before)]

(***************************************************************************)
(* Worm._use_tool in standard tools mode.  in_range: the target is within  *)
(* the throw distance; rapid: the previous laser shot was less than 2 s    *)
(* of wall-clock time ago                                                  *)
(***************************************************************************)
use_tool(worm, in_range, rapid) ==
    LET tool == current_tool(worm)
    IN  IF tool = "torch" /\ worm.gas < TORCH_GAS_COST THEN worm
        ELSE IF tool = "drill" THEN [worm EXCEPT !.dig_request = tool]
        ELSE IF tool = "torch"
        THEN [worm EXCEPT !.dig_request = tool, !.gas = @ - TORCH_GAS_COST]
        ELSE IF tool = "laser"
        THEN IF worm.laser_battery >= LASER_SHOT_COST * TimeScale
             THEN LET use_count == IF rapid THEN worm.laser_use_count + 1
                                   ELSE 1
                  IN  [worm EXCEPT
                          !.dig_request = tool,
                          !.laser_battery = @ - LASER_SHOT_COST * TimeScale,
                          !.laser_use_count =
                              IF use_count >= LASER_RAPID_USES THEN 0
                              ELSE use_count,
                          !.laser_cooldown_timer =
                              IF use_count >= LASER_RAPID_USES
                              THEN LASER_COOLDOWN * TimeScale ELSE @]
             ELSE worm
        ELSE IF in_range THEN [worm EXCEPT !.dig_request = tool]
        ELSE worm

(***************************************************************************)
(* ThrownDynamite (dynamite.py).  elapsed is time.time() - start_time as   *)
(* the last update read it (the clock advances by dt from one tick to the  *)
(* next; nothing is read from it once the fuse time is passed, so it is    *)
(* kept up to DYNAMITE_FUSE_TIME); hit_terrain tells whether the charge    *)
(* has met solid terrain; signals counts the updates that returned True    *)
(***************************************************************************)
ThrownDynamite ==
    [elapsed |-> 0, has_exploded |-> FALSE, hit_terrain |-> FALSE,
     signals |-> 0]

\* ThrownDynamite.update without the has_exploded test of its last branch
dynamite_update_refires(dynamite, dt, solid) ==
    LET elapsed == Min(DYNAMITE_FUSE_TIME * TimeScale, dynamite.elapsed + dt)
        d1 == [dynamite EXCEPT
                  !.elapsed = elapsed,
                  !.hit_terrain =
                      IF ~dynamite.has_exploded
                         /\ elapsed < DYNAMITE_FUSE_TIME * TimeScale
                      THEN @ \/ solid ELSE @]
    IN  IF elapsed >= DYNAMITE_FUSE_TIME * TimeScale
        THEN [dynamite |-> [d1 EXCEPT !.has_exploded = TRUE,
                                      !.signals = Min(2, @ + 1)],
              exploded |-> TRUE]
        ELSE [dynamite |-> d1, exploded |-> FALSE]

\* ThrownDynamite.update(dt, terrain); solid: terrain.is_solid at the
\* position the charge would move to
dynamite_update(dynamite, dt, solid) ==
    LET elapsed == Min(DYNAMITE_FUSE_TIME * TimeScale, dynamite.elapsed + dt)
        d1 == [dynamite EXCEPT
                  !.elapsed = elapsed,
                  !.hit_terrain =
                      IF ~dynamite.has_exploded
                         /\ elapsed < DYNAMITE_FUSE_TIME * TimeScale
                      THEN @ \/ solid ELSE @]
    IN  IF elapsed >= DYNAMITE_FUSE_TIME * TimeScale
           /\ ~dynamite.has_exploded
        THEN [dynamite |-> [d1 EXCEPT !.has_exploded = TRUE,
                                      !.signals = Min(2, @ + 1)],
              exploded |-> TRUE]
        ELSE [dynamite |-> d1, exploded |-> FALSE]

(***************************************************************************)
(* Worm._throw_dynamite in standard tools mode                             *)
(***************************************************************************)
throw_dynamite(worm) ==
    IF worm.dynamite_count <= 0 THEN worm
    ELSE IF worm.is_respawning \/ worm.spawn_protection > 0 THEN worm
    ELSE [worm EXCEPT !.thrown_dynamites = Append(@, ThrownDynamite),
                      !.dynamite_count = @ - 1]

(***************************************************************************)
(* Worm.update(dt, terrain): battery, power charging, the thrown charges   *)
(* (solid[k]: the k-th one meets solid terrain), physics (a landing with   *)
(* fall damage `fall`, 0 for none), the item the worm meets (found), tool  *)
(* usage of the pending dig request; returns the worm, the pending death   *)
(* info and the take_damage calls made.  The crater dug for a charge that  *)
(* signals its explosion is a Terrain.dig with the tool type "dynamite".   *)
(***************************************************************************)
\* the items of the terrain a worm can meet in an update: one it touches
\* (Worm._check_item_collection) or a gas bottle within the wider radius
\* of Terrain.check_for_items
Items == {"touched_gas_bottle", "touched_dynamite", "near_gas_bottle"}

\* the collection that adds a gas bottle without the MAX_GAS limit
check_item_collection_unclamped(worm, found) ==
    IF found = "touched_gas_bottle"
    THEN [worm EXCEPT !.gas = @ + GAS_REFILL_AMOUNT]
    ELSE IF found = "touched_dynamite"
    THEN [worm EXCEPT !.dynamite_count = @ + 1]
    ELSE worm

check_item_collection(worm, found) ==
    IF found = "touched_gas_bottle"
    THEN [worm EXCEPT !.gas = Min(MAX_GAS, @ + GAS_REFILL_AMOUNT)]
    ELSE IF found = "touched_dynamite"
    THEN [worm EXCEPT !.dynamite_count = @ + 1]
    ELSE worm

check_for_items(worm, found) ==
    IF found = "near_gas_bottle"
    THEN [worm EXCEPT !.gas = Min(@ + GAS_BOTTLE_AMOUNT, MAX_GAS)]
    ELSE worm

worm_update(worm, dt, fall, solid, found) ==
    LET w1 == IF worm.laser_cooldown_timer > 0
              THEN [worm EXCEPT !.laser_cooldown_timer = @ - dt]
              ELSE IF worm.laser_battery < LASER_BATTERY_FULL * TimeScale
              THEN [worm EXCEPT !.laser_battery =
                       Min(LASER_BATTERY_FULL * TimeScale,
                           @ + LASER_RECHARGE_RATE * dt)]
              ELSE worm
        w2 == IF w1.charging_power /\ ~w1.is_respawning
                 /\ w1.spawn_protection <= 0
              THEN w1
              ELSE IF w1.is_respawning \/ w1.spawn_protection > 0
              THEN [w1 EXCEPT !.charging_power = FALSE]
              ELSE w1
        w2d == [w2 EXCEPT !.thrown_dynamites =
                   [k \in 1..Len(@) |->
                       dynamite_update(@[k], dt, solid[k]).dynamite]]
        landed == ~w2d.is_respawning /\ fall > 0
        damage_result == take_damage(w2d, fall)
        w3 == IF landed THEN damage_result.worm ELSE w2d
        w3i == check_item_collection(w3, found)
        w4 == [w3i EXCEPT !.tool_used_this_frame = w3i.dig_request,
                          !.dig_request = None]
        w5 == check_for_items(w4, found)
    IN  [worm |-> w5,
         death_info |-> (landed /\ damage_result.needs_death_handling),
         calls |-> IF landed THEN {damage_call(w2d, damage_result)} ELSE {}]

(***************************************************************************)
(* Game._handle_worm_death and Game._create_tombstone on the game record   *)
(* g = [worms, tombstones, calls]                                          *)
(***************************************************************************)
handle_worm_death_two_stones(g, v, attacker) ==
    LET d == die(g.worms, v, attacker)
        stone == [gas_amount |-> d.tombstone_data[1].gas,
                  dynamite_amount |-> d.tombstone_data[1].dynamite,
                  deceased_worm_name |-> d.tombstone_data[1].deceased_name,
                  is_looted |-> FALSE]
    IN  IF d.tombstone_data # <<>>
        THEN [g EXCEPT !.worms = d.worms,
                       !.tombstones = Append(Append(@, stone), stone)]
        ELSE [g EXCEPT !.worms = d.worms]

handle_worm_death(g, v, attacker) ==
    LET d == die(g.worms, v, attacker)
    IN  IF d.tombstone_data # <<>>
        THEN [g EXCEPT !.worms = d.worms,
                       !.tombstones = Append(@,
                           [gas_amount |-> d.tombstone_data[1].gas,
                            dynamite_amount |-> d.tombstone_data[1].dynamite,
                            deceased_worm_name |->
                                d.tombstone_data[1].deceased_name,
                            is_looted |-> FALSE])]
        ELSE [g EXCEPT !.worms = d.worms]

(***************************************************************************)
(* Game.update, "Update all worms": each worm's update in list order, a    *)
(* fall death handled right after the update that caused it                *)
(***************************************************************************)
update_worm(g, i, dt, fall, solid, found) ==
    LET u == worm_update(g.worms[i], dt, fall[i], solid[i], found[i])
        g1 == [g EXCEPT !.worms[i] = u.worm,
                        !.calls = @ \cup u.calls]
    IN  IF u.death_info THEN handle_worm_death(g1, i, NoWorm) ELSE g1

RECURSIVE update_worms(_, _, _, _, _, _)
update_worms(g, i, dt, fall, solid, found) ==
    IF i > NumWorms THEN g
    ELSE Apply(LAMBDA g0 : update_worms(
                               update_worm(g0, i, dt, fall, solid, found),
                               i + 1, dt, fall, solid, found), g)

(***************************************************************************)
(* Game._check_tool_damage: attackers in list order, victims in list       *)
(* order; hit[a][v] tells whether the victim's reference point lies in     *)
(* the footprint of the attacker's tool.  The dynamite loop that ends the  *)
(* method is check_dynamite_explosions below.                              *)
(***************************************************************************)
tool_damage(tool) ==
    IF tool = "drill" THEN DRILL_DAMAGE
    ELSE IF tool = "laser" THEN LASER_DAMAGE
    ELSE TORCH_DAMAGE

\* Game._check_tool_damage that lets a tool hurt its user
check_tool_damage_pair_self(g, a, v, hit) ==
    LET attacker == g.worms[a]
        victim == g.worms[v]
        tool == attacker.tool_used_this_frame
    IN  IF attacker.is_dead \/ tool = None
           \/ victim.is_dead
           \/ tool \notin {"drill", "laser", "torch"}
           \/ ~hit[a][v]
        THEN g
        ELSE LET damage_result == take_damage(victim, tool_damage(tool))
                 g1 == [g EXCEPT
                     !.worms[v] = damage_result.worm,
                     !.calls = @ \cup {damage_call(victim, damage_result)}]
             IN  IF damage_result.needs_death_handling
                 THEN handle_worm_death(g1, v, a)
                 ELSE g1

check_tool_damage_pair(g, a, v, hit) ==
    LET attacker == g.worms[a]
        victim == g.worms[v]
        tool == attacker.tool_used_this_frame
    IN  IF attacker.is_dead \/ tool = None
           \/ v = a \/ victim.is_dead
           \/ tool \notin {"drill", "laser", "torch"}
           \/ ~hit[a][v]
        THEN g
        ELSE LET damage_result == take_damage(victim, tool_damage(tool))
                 g1 == [g EXCEPT
                     !.worms[v] = damage_result.worm,
                     !.calls = @ \cup {damage_call(victim, damage_result)}]
             IN  IF damage_result.needs_death_handling
                 THEN handle_worm_death(g1, v, a)
                 ELSE g1

RECURSIVE check_tool_damage(_, _, _)
check_tool_damage(g, k, hit) ==
    IF k >= NumWorms * NumWorms THEN g
    ELSE Apply(LAMBDA g0 :
                   check_tool_damage(
                       check_tool_damage_pair(g0, (k \div NumWorms) + 1,
                                              (k % NumWorms) + 1, hit),
                       k + 1, hit), g)

(***************************************************************************)
(* Explosion.apply_damage(worms) of an explosion [radius, base_damage,     *)
(* source_worm]; distance2[w] is (worm_x - x)^2 + (worm_y - y)^2 for the   *)
(* first body segment of w, so that distance <= radius is                  *)
(* distance2 <= radius^2 and int(distance) is the integer square root.     *)
(* Returns the worms, the list damaged_worms and the take_damage calls.    *)
(***************************************************************************)
int_sqrt(n) == CHOOSE r \in 0..n : r * r <= n /\ n < (r + 1) * (r + 1)

dynamite_explosion(source_worm) ==
    [radius |-> DYNAMITE_RADIUS, base_damage |-> DYNAMITE_BASE_DAMAGE,
     source_worm |-> source_worm]

small_explosion(source_worm) ==
    [radius |-> DYNAMITE_RADIUS \div 2,
     base_damage |-> DYNAMITE_BASE_DAMAGE \div 2,
     source_worm |-> source_worm]

\* apply_damage without the floor of EXPLOSION_MIN_DAMAGE
blast_damage_unfloored(explosion, d2) ==
    explosion.base_damage - int_sqrt(d2)

blast_damage(explosion, d2) ==
    Max(EXPLOSION_MIN_DAMAGE, explosion.base_damage - int_sqrt(d2))

apply_damage_worm(b, explosion, w, distance2) ==
    IF b.worms[w].is_dead THEN b
    ELSE IF distance2[w] <= explosion.radius * explosion.radius
    THEN LET damage == blast_damage(explosion, distance2[w])
             damage_result == take_damage(b.worms[w], damage)
         IN  [worms |-> [b.worms EXCEPT ![w] = damage_result.worm],
              damaged_worms |-> Append(b.damaged_worms,
                  [worm |-> w, damage |-> damage,
                   distance2 |-> distance2[w],
                   needs_death_handling |->
                       damage_result.needs_death_handling]),
              calls |-> b.calls
                  \cup {damage_call(b.worms[w], damage_result)}]
    ELSE b

RECURSIVE apply_damage_from(_, _, _, _)
apply_damage_from(b, explosion, w, distance2) ==
    IF w > NumWorms THEN b
    ELSE Apply(LAMBDA b0 :
                   apply_damage_from(
                       apply_damage_worm(b0, explosion, w, distance2),
                       explosion, w + 1, distance2), b)

apply_damage(ws, explosion, distance2) ==
    apply_damage_from([worms |-> ws, damaged_worms |-> <<>>, calls |-> {}],
                      explosion, 1, distance2)

(***************************************************************************)
(* Game._check_tool_damage, "Check dynamite explosions": every charge of   *)
(* a worm's list that carries a true exploded_this_frame attribute is      *)
(* removed from the list and turned into an explosion whose deaths are     *)
(* handled with the owner as attacker.  g = [worms, tombstones, calls,     *)
(* explosions]; distance2[v]: squared distance of v to the charge.         *)
(***************************************************************************)
exploded_this_frame(dynamite) ==
    "exploded_this_frame" \in DOMAIN dynamite /\ dynamite.exploded_this_frame

RECURSIVE remove(_, _)
remove(list, item) ==
    IF list = <<>> THEN list
    ELSE IF Head(list) = item THEN Tail(list)
    ELSE <<Head(list)>> \o remove(Tail(list), item)

RECURSIVE handle_blast_deaths(_, _, _, _)
handle_blast_deaths(g, damaged_worms, k, w) ==
    IF k > Len(damaged_worms) THEN g
    ELSE Apply(LAMBDA g0 :
                   handle_blast_deaths(
                       IF damaged_worms[k].needs_death_handling
                       THEN handle_worm_death(g0, damaged_worms[k].worm, w)
                       ELSE g0,
                       damaged_worms, k + 1, w), g)

blast_deaths(g, w, dynamite, b) ==
    LET g1 == [g EXCEPT !.worms = b.worms,
                        !.calls = @ \cup b.calls]
    IN  [handle_blast_deaths(g1, b.damaged_worms, 1, w)
            EXCEPT !.explosions = @ \cup
                {[source_worm |-> w, dynamite |-> dynamite,
                  damaged_worms |-> b.damaged_worms]}]

dynamite_explodes(g, w, dynamite, distance2) ==
    Apply(LAMBDA b : blast_deaths(g, w, dynamite, b),
          apply_damage(
              [g.worms EXCEPT ![w].thrown_dynamites = remove(@, dynamite)],
              dynamite_explosion(w), distance2))

RECURSIVE check_dynamites(_, _, _, _, _)
check_dynamites(g, w, copy, k, distance2) ==
    IF k > Len(copy) THEN g
    ELSE Apply(LAMBDA g0 :
                   check_dynamites(
                       IF exploded_this_frame(copy[k])
                       THEN dynamite_explodes(g0, w, copy[k], distance2)
                       ELSE g0,
                       w, copy, k + 1, distance2), g)

RECURSIVE check_dynamite_explosions(_, _, _)
check_dynamite_explosions(g, w, distance2) ==
    IF w > NumWorms THEN g
    ELSE Apply(LAMBDA g0 :
                   check_dynamite_explosions(
                       IF g0.worms[w].is_dead THEN g0
                       ELSE check_dynamites(g0, w,
                                g0.worms[w].thrown_dynamites, 1, distance2),
                       w + 1, distance2), g)

(***************************************************************************)
(* Game._handle_death_and_respawn                                          *)
(***************************************************************************)
handle_death_and_respawn(ws, dt) ==
    [w \in Worms |->
        IF ws[w].is_respawning
        THEN LET t == update_respawn_timer(ws[w], dt)
             IN  IF t.ready THEN respawn(t.worm) ELSE t.worm
        ELSE IF ~ws[w].is_dead /\ ws[w].spawn_protection > 0
        THEN [ws[w] EXCEPT !.spawn_protection = @ - dt]
        ELSE ws[w]]

(***************************************************************************)
(* Tombstone.loot                                                          *)
(***************************************************************************)
loot_unclamped(tombstone, worm) ==
    IF tombstone.is_looted
    THEN [worm |-> worm, tombstone |-> tombstone, looted |-> FALSE]
    ELSE [worm |-> [worm EXCEPT
                       !.gas = @ + tombstone.gas_amount,
                       !.dynamite_count = @ + tombstone.dynamite_amount],
          tombstone |-> [tombstone EXCEPT !.is_looted = TRUE],
          looted |-> TRUE]

loot_again(tombstone, worm) ==
    [worm |-> [worm EXCEPT
                  !.gas = Min(MAX_GAS, @ + tombstone.gas_amount),
                  !.dynamite_count = @ + tombstone.dynamite_amount],
     tombstone |-> [tombstone EXCEPT !.is_looted = TRUE],
     looted |-> TRUE]

loot(tombstone, worm) ==
    IF tombstone.is_looted
    THEN [worm |-> worm, tombstone |-> tombstone, looted |-> FALSE]
    ELSE [worm |-> [worm EXCEPT
                       !.gas = Min(MAX_GAS, @ + tombstone.gas_amount),
                       !.dynamite_count = @ + tombstone.dynamite_amount],
          tombstone |-> [tombstone EXCEPT !.is_looted = TRUE],
          looted |-> TRUE]

(***************************************************************************)
(* Game._update_tombstones on g = [worms, tombstones, loots], tombstones   *)
(* being those kept so far and loots the loot calls made: near[k] is the   *)
(* set of worms within the interaction radius of tombstone k; the first    *)
(* worm of the list that is not dead and can loot it loots it and the      *)
(* tombstone is removed                                                    *)
(***************************************************************************)
can_be_looted_by(tombstone, in_radius) ==
    IF tombstone.is_looted THEN FALSE ELSE in_radius

loot_call(k, w, tombstone, worm, l) ==
    [stone |-> k, looter |-> w, was_looted |-> tombstone.is_looted,
     was_respawning |-> worm.is_respawning, looted |-> l.looted]

update_tombstone_kept(g, k, tombstone, near) ==
    LET candidates == {w \in Worms :
                          /\ ~g.worms[w].is_dead
                          /\ can_be_looted_by(tombstone, w \in near)}
    IN  IF candidates = {}
        THEN [g EXCEPT !.tombstones = Append(@, tombstone)]
        ELSE LET w == CHOOSE c \in candidates :
                          \A o \in candidates : c <= o
                 l == loot(tombstone, g.worms[w])
             IN  [g EXCEPT !.worms[w] = l.worm,
                           !.tombstones = Append(@, l.tombstone),
                           !.loots = @ \cup {loot_call(k, w, tombstone,
                                                      g.worms[w], l)}]

update_tombstone(g, k, tombstone, near) ==
    LET candidates == {w \in Worms :
                          /\ ~g.worms[w].is_dead
                          /\ can_be_looted_by(tombstone, w \in near)}
    IN  IF candidates = {}
        THEN [g EXCEPT !.tombstones = Append(@, tombstone)]
        ELSE LET w == CHOOSE c \in candidates :
                          \A o \in candidates : c <= o
                 l == loot(tombstone, g.worms[w])
                 g1 == [g EXCEPT !.worms[w] = l.worm,
                                 !.loots = @ \cup {loot_call(k, w, tombstone,
                                                            g.worms[w], l)}]
             IN  IF l.looted
                 THEN g1
                 ELSE [g1 EXCEPT !.tombstones = Append(@, l.tombstone)]

RECURSIVE update_tombstones(_, _, _, _)
update_tombstones(g, stones, k, near) ==
    IF k > Len(stones) THEN g
    ELSE Apply(LAMBDA g0 :
                   update_tombstones(
                       update_tombstone(g0, k, stones[k], near[k]),
                       stones, k + 1, near), g)

(***************************************************************************)
(* Game._next_level: every worm is replaced by a new Worm that keeps gas,  *)
(* dynamite count and hp (name, color, is_human, player_id are the list    *)
(* index here)                                                             *)
(***************************************************************************)
next_level(ws) ==
    [w \in Worms |->
        [Worm EXCEPT !.gas = ws[w].gas,
                     !.dynamite_count = ws[w].dynamite_count,
                     !.hp = ws[w].hp]]

(***************************************************************************)
(* Worm._apply_physics_movement, fall damage of a landing after a fall of  *)
(* distance_fallen pixels: max(1, int((distance - 50) * 0.8))              *)
(***************************************************************************)
FALL_DAMAGE_START_HEIGHT == 50
FALL_DAMAGE_MULTIPLIER == 8

fall_damage(distance_fallen) ==
    IF distance_fallen >= FALL_DAMAGE_START_HEIGHT
    THEN Max(1, ((distance_fallen - FALL_DAMAGE_START_HEIGHT)
                     * FALL_DAMAGE_MULTIPLIER) \div 10)
    ELSE 0

(***************************************************************************)
(* Inputs of a tick                                                        *)
(***************************************************************************)
DtSet == 1..MaxDt
FallDistances == {200}

FallInputs(w) ==
    IF ~worms[w].is_respawning
    THEN {0} \cup {fall_damage(d) : d \in FallDistances}
    ELSE {0}

PossibleHits ==
    {p \in Worms \X Worms :
        /\ p[1] # p[2]
        /\ worms[p[1]].dig_request \in {"drill", "laser", "torch"}}

\* the landings and tool hits of a tick that meet a worm which is neither
\* waiting to respawn nor protected; a run has at most MaxEvents of them
\* and of player inputs together (events counts both)
Vulnerable(w) == ~worms[w].is_respawning /\ worms[w].spawn_protection <= 0

Contacts(fall, hits) ==
    Cardinality({w \in Worms : fall[w] > 0 /\ Vulnerable(w)})
        + Cardinality({p \in hits : Vulnerable(p[2])})

\* the item each worm meets in a tick, None for none: at most one worm
\* meets an item in a tick, and the items met count as events too
ItemInputs ==
    {[w \in Worms |-> None]}
        \cup {[w \in Worms |-> IF w = o THEN item ELSE None] :
                  o \in Worms, item \in Items}

Pickups(found) == Cardinality({w \in Worms : found[w] # None})

\* the ticks of a game run happen where no worm meets an item; the items
\* are met in UpdateStep below
TickItems == {[w \in Worms |-> None]}

(***************************************************************************)
(* Game.update(dt) for an unpaused game without battle timer.  The tick    *)
(* also keeps two records for the properties: damage_log, the take_damage  *)
(* calls of the tick, and since_death[w], the dt accumulated by the ticks  *)
(* from the one in which w died on, while w is waiting to respawn and in   *)
(* the tick that ends the wait (-1 otherwise).  The terrain carved by a    *)
(* tool use is the subject of DigCall below.  damage_phase is the tick up  *)
(* to and including _check_tool_damage; Tick goes on with the respawn      *)
(* timers, the tombstones (near[k]: the worms close to the k-th one) and   *)
(* the goal check.                                                         *)
(***************************************************************************)
damage_phase(ws, stones, dt, fall, hits, solid, distance2, found) ==
    LET g0 == [worms |-> ws, tombstones |-> stones, calls |-> {},
               explosions |-> NoBlasts]
        hit == [a \in Worms |-> [v \in Worms |-> <<a, v>> \in hits]]
    IN  check_dynamite_explosions(
            check_tool_damage(update_worms(g0, 1, dt, fall, solid, found),
                              0, hit),
            1, distance2)

\* a charge that the tick's update still moves can meet solid terrain
Moving(dynamite, dt) ==
    /\ ~dynamite.has_exploded /\ ~dynamite.hit_terrain
    /\ dynamite.elapsed + dt < DYNAMITE_FUSE_TIME * TimeScale

ChargeSolid(w, dt) ==
    {f \in [1..Len(worms[w].thrown_dynamites) -> BOOLEAN] :
        \A k \in DOMAIN f : f[k] => Moving(worms[w].thrown_dynamites[k], dt)}

SolidInputs(dt) ==
    {solid \in [Worms -> UNION {ChargeSolid(w, dt) : w \in Worms}] :
        \A w \in Worms : solid[w] \in ChargeSolid(w, dt)}

\* squared distances of the worms to a charge that the game explodes
BlastDistances2 == {0, 50 * 50, 60 * 60 - 1, 61 * 61,
                    DYNAMITE_RADIUS * DYNAMITE_RADIUS,
                    DYNAMITE_RADIUS * DYNAMITE_RADIUS + 1, 200 * 200}

BlastInputs ==
    IF \E w \in Worms : \E k \in DOMAIN worms[w].thrown_dynamites :
           exploded_this_frame(worms[w].thrown_dynamites[k])
    THEN [Worms -> BlastDistances2]
    ELSE {[w \in Worms |-> 0]}

\* the first worm of the list that is near decides what happens to a
\* tombstone: nobody near, or a worm and every worm after it
NearInputs(stones) ==
    [1..Len(stones) -> {{}} \cup {{o \in Worms : o >= w} : w \in Worms}]

update(dt, fall, hits, reached_goal, found, solid, distance2) ==
    /\ events' = events + Contacts(fall, hits) + Pickups(found)
    /\ level' = IF reached_goal THEN level + 1 ELSE level
    /\ \E g2 \in {damage_phase(worms, tombstones, dt, fall, hits, solid,
                               distance2, found)} :
       \E ws3 \in {handle_death_and_respawn(g2.worms, dt)} :
       \E near \in NearInputs(g2.tombstones) :
       \E g4 \in {update_tombstones([worms |-> ws3, tombstones |-> <<>>,
                                     loots |-> {}],
                                    g2.tombstones, 1, near)} :
           LET died == {w \in Worms : g2.worms[w].deaths > worms[w].deaths}
           IN  /\ reached_goal =>
                      /\ level < MaxLevel
                      /\ \E w \in Worms \ died : ~worms[w].is_respawning
               /\ worms' = IF reached_goal THEN next_level(g4.worms)
                           ELSE g4.worms
               /\ tombstones' = g4.tombstones
               /\ since_death' =
                      [w \in Worms |->
                          IF w \in died
                          THEN Min(RESPAWN_TIME * TimeScale, dt)
                          ELSE IF worms[w].is_respawning /\ since_death[w] >= 0
                          THEN Min(RESPAWN_TIME * TimeScale,
                                   since_death[w] + dt)
                          ELSE -1]
               /\ damage_log' = g2.calls
               /\ loot_log' = g4.loots
               /\ blast_log' = g2.explosions

\* the tick of a game run, whose terrain is the subject of DigCall
Tick(dt, fall, hits, reached_goal, found) ==
    /\ \E solid \in SolidInputs(dt), distance2 \in BlastInputs :
           update(dt, fall, hits, reached_goal, found, solid, distance2)
    /\ UNCHANGED <<terrain_vars, fall_vars>>

GameUpdate ==
    \E dt \in DtSet, reached_goal \in BOOLEAN :
        \E fall \in [Worms -> {0} \cup {fall_damage(d) : d \in FallDistances}],
           hits \in SUBSET PossibleHits, found \in TickItems :
            /\ \A w \in Worms : fall[w] \in FallInputs(w)
            /\ events + Contacts(fall, hits) + Pickups(found) <= MaxEvents
            /\ Tick(dt, fall, hits, reached_goal, found)

(***************************************************************************)
(* Worm.handle_event, KEYDOWN of a tool-cycle key (Q/E, comma/minus)       *)
(***************************************************************************)
Humans == {w \in Worms : w <= HUMAN_PLAYERS}

KeyCycleTool(w, direction) ==
    /\ events < MaxEvents
    /\ worms' = [worms EXCEPT ![w].current_tool_index =
                     (@ + direction) % Len(tools)]
    /\ events' = events + 1
    /\ UNCHANGED <<tombstones, level, since_death, damage_log, terrain_vars,
                   log_vars, fall_vars>>

(***************************************************************************)
(* Worm.handle_event, KEYDOWN of the use-tool key (F, period)              *)
(***************************************************************************)
KeyUseTool(w, in_range, rapid) ==
    /\ events < MaxEvents
    /\ ~worms[w].is_respawning /\ worms[w].spawn_protection <= 0
    /\ worms' = [worms EXCEPT ![w] =
                     IF current_tool(@) = "dynamite"
                     THEN IF @.dynamite_count > 0
                          THEN [@ EXCEPT !.charging_power = TRUE]
                          ELSE @
                     ELSE use_tool(@, in_range, rapid)]
    /\ events' = events + 1
    /\ UNCHANGED <<tombstones, level, since_death, damage_log, terrain_vars,
                   log_vars, fall_vars>>

(***************************************************************************)
(* Worm.handle_event, KEYUP of the use-tool key while the throw power is   *)
(* charging: the charge is thrown                                          *)
(***************************************************************************)
KeyReleaseTool(w) ==
    /\ worms[w].charging_power
    /\ worms' = [worms EXCEPT ![w] =
                     IF current_tool(@) = "dynamite" /\ @.dynamite_count > 0
                        /\ ~@.is_respawning /\ @.spawn_protection <= 0
                     THEN throw_dynamite([@ EXCEPT !.charging_power = FALSE])
                     ELSE [@ EXCEPT !.charging_power = FALSE]]
    /\ UNCHANGED <<tombstones, level, events, since_death, damage_log,
                   terrain_vars, log_vars, fall_vars>>

(***************************************************************************)
(* Worm.handle_event, MOUSEBUTTONDOWN, routed by Game.handle_event to the  *)
(* current player, always the first worm of the list                       *)
(***************************************************************************)
MouseUseTool(in_range, rapid) ==
    /\ events < MaxEvents
    /\ ~worms[1].is_respawning /\ worms[1].spawn_protection <= 0
    /\ worms' = [worms EXCEPT ![1] = use_tool(@, in_range, rapid)]
    /\ events' = events + 1
    /\ UNCHANGED <<tombstones, level, since_death, damage_log, terrain_vars,
                   log_vars, fall_vars>>

KeyEvent ==
    \E w \in Humans :
        \/ \E direction \in {-1, 1} : KeyCycleTool(w, direction)
        \/ \E in_range \in {TRUE},
              rapid \in IF current_tool(worms[w]) = "laser"
                        THEN BOOLEAN ELSE {TRUE} :
               KeyUseTool(w, in_range, rapid)
        \/ KeyReleaseTool(w)

MouseEvent ==
    \E in_range \in IF current_tool(worms[1]) = "dynamite"
                    THEN BOOLEAN ELSE {TRUE},
       rapid \in IF current_tool(worms[1]) = "laser"
                 THEN BOOLEAN ELSE {TRUE} :
        MouseUseTool(in_range, rapid)

(***************************************************************************)
(* Terrain (terrain.py): tiles[ty][tx] is the material of the cell in      *)
(* column tx of row ty                                                     *)
(***************************************************************************)
EMPTY == 0
DIRT == 1
ROCK == 2
METAL == 3
TerrainType == {EMPTY, DIRT, ROCK, METAL}

Columns == 0..(GridWidth - 1)
Rows == 0..(GridHeight - 1)

\* int(q) of a quotient n/d with d > 0: truncation toward zero
Trunc(n, d) == IF n >= 0 THEN n \div d ELSE -((-n) \div d)

(***************************************************************************)
(* Terrain._can_dig                                                        *)
(***************************************************************************)
can_dig_laser_dirt(terrain_type, tool_type) ==
    IF terrain_type = EMPTY THEN FALSE
    ELSE IF tool_type = "drill" THEN terrain_type \in {DIRT, ROCK}
    ELSE IF tool_type = "dynamite" THEN terrain_type \in {DIRT, ROCK, METAL}
    ELSE IF tool_type = "laser" THEN terrain_type \in {DIRT, ROCK, METAL}
    ELSE IF tool_type = "torch" THEN terrain_type \in {DIRT, ROCK}
    ELSE FALSE

can_dig(terrain_type, tool_type) ==
    IF terrain_type = EMPTY THEN FALSE
    ELSE IF tool_type = "drill" THEN terrain_type \in {DIRT, ROCK}
    ELSE IF tool_type = "dynamite" THEN terrain_type \in {DIRT, ROCK, METAL}
    ELSE IF tool_type = "laser" THEN terrain_type \in {ROCK, METAL}
    ELSE IF tool_type = "torch" THEN terrain_type \in {DIRT, ROCK}
    ELSE FALSE

(***************************************************************************)
(* The torch directions of the model: cosine and sine of direction_angle   *)
(* in ten-thousandths (right, down-right, down, left, up, up-left; the y   *)
(* axis points down), and tan(TORCH_CONE_ANGLE / 2) in hundred-thousandths *)
(***************************************************************************)
Directions ==
    <<[cos |-> 10000, sin |-> 0],
      [cos |-> 7071, sin |-> 7071],
      [cos |-> 0, sin |-> 10000],
      [cos |-> -10000, sin |-> 0],
      [cos |-> 0, sin |-> -10000],
      [cos |-> -7071, sin |-> -7071]>>

TAN_HALF_CONE == 57735

(***************************************************************************)
(* Terrain.dig, the cells of the tool's footprint around (tile_x, tile_y)  *)
(***************************************************************************)
drill_width_tiles == Max(1, DRILL_WIDTH \div TILE_SIZE)
drill_depth_tiles == Max(1, DRILL_DEPTH \div TILE_SIZE)

in_drill_shaft(tx, ty, tile_x, tile_y) ==
    LET start_x == tile_x - drill_width_tiles \div 2
        end_x == tile_x + drill_width_tiles \div 2
    IN  /\ ty >= tile_y /\ ty < tile_y + drill_depth_tiles
        /\ tx >= start_x /\ tx <= end_x

in_torch_cone(tx, ty, tile_x, tile_y, radius, direction_angle) ==
    LET cone_length == radius \div TILE_SIZE
    IN  \E distance \in 1..cone_length :
            LET cone_width == Trunc(distance * TAN_HALF_CONE, 100000)
                center_x == tile_x
                    + Trunc(distance * Directions[direction_angle].cos, 10000)
                center_y == tile_y
                    + Trunc(distance * Directions[direction_angle].sin, 10000)
                dx == tx - center_x
                dy == ty - center_y
            IN  dx * dx + dy * dy <= cone_width * cone_width

in_circle(tx, ty, tile_x, tile_y, radius) ==
    LET tile_radius == Max(1, radius \div TILE_SIZE)
        dx == tx - tile_x
        dy == ty - tile_y
    IN  /\ dx >= -tile_radius /\ dx <= tile_radius
        /\ dy >= -tile_radius /\ dy <= tile_radius
        /\ dx * dx + dy * dy <= tile_radius * tile_radius

(***************************************************************************)
(* Terrain.dig(x, y, radius, tool_type, direction_angle) on the grid t:    *)
(* pixel coordinates to cell coordinates, then every cell of the footprint *)
(* that lies in the grid and that the tool can dig becomes EMPTY           *)
(***************************************************************************)
\* Terrain.dig that leaves Dirt where it digs Rock
dig_rubble(t, x, y, radius, tool_type, direction_angle) ==
    LET adjusted_y == y - UI_HEIGHT
        tile_x == x \div TILE_SIZE
        tile_y == adjusted_y \div TILE_SIZE
        in_footprint(tx, ty) ==
            IF tool_type = "drill"
            THEN in_drill_shaft(tx, ty, tile_x, tile_y)
            ELSE IF tool_type = "torch"
            THEN in_torch_cone(tx, ty, tile_x, tile_y, radius,
                               direction_angle)
            ELSE in_circle(tx, ty, tile_x, tile_y, radius)
    IN  [ty \in Rows |-> [tx \in Columns |->
            IF in_footprint(tx, ty) /\ can_dig(t[ty][tx], tool_type)
            THEN IF t[ty][tx] = ROCK THEN DIRT ELSE EMPTY
            ELSE t[ty][tx]]]

dig(t, x, y, radius, tool_type, direction_angle) ==
    LET adjusted_y == y - UI_HEIGHT
        tile_x == x \div TILE_SIZE
        tile_y == adjusted_y \div TILE_SIZE
        in_footprint(tx, ty) ==
            IF tool_type = "drill"
            THEN in_drill_shaft(tx, ty, tile_x, tile_y)
            ELSE IF tool_type = "torch"
            THEN in_torch_cone(tx, ty, tile_x, tile_y, radius,
                               direction_angle)
            ELSE in_circle(tx, ty, tile_x, tile_y, radius)
    IN  [ty \in Rows |-> [tx \in Columns |->
            IF in_footprint(tx, ty) /\ can_dig(t[ty][tx], tool_type)
            THEN EMPTY
            ELSE t[ty][tx]]]

(***************************************************************************)
(* Worm._get_tool_radius, and the radius argument of the dig calls of      *)
(* Worm.update and Worm._dig_laser_line: the torch digs with TORCH_RANGE,  *)
(* every other tool with its tool radius                                   *)
(***************************************************************************)
get_tool_radius(tool) ==
    IF tool = "drill" THEN DRILL_WIDTH \div 2
    ELSE IF tool = "dynamite" THEN DYNAMITE_RADIUS
    ELSE IF tool = "torch" THEN TORCH_RADIUS
    ELSE IF tool = "laser" THEN LASER_WIDTH \div 2
    ELSE DRILL_WIDTH \div 2

dig_radius(tool) ==
    IF tool = "torch" THEN TORCH_RANGE ELSE get_tool_radius(tool)

(***************************************************************************)
(* Grids the digging starts from: uniform grids of one material and two    *)
(* grids laid out as Terrain.generate_terrain lays them out (rows above    *)
(* 35% of the height EMPTY, a DIRT ground line, all four materials below)  *)
(***************************************************************************)
ground_level_y == (GridHeight * 35) \div 100

Uniform(m) == [ty \in Rows |-> [tx \in Columns |-> m]]

Layered(k) ==
    [ty \in Rows |-> [tx \in Columns |->
        IF ty < ground_level_y THEN EMPTY
        ELSE IF ty = ground_level_y THEN DIRT
        ELSE (tx + k * ty) % 4]]

InitialGrids ==
    {Uniform(DIRT), Uniform(ROCK), Uniform(METAL), Layered(1), Layered(2)}

(***************************************************************************)
(* One Terrain.dig call as the worm makes it: the target is the centre of  *)
(* a cell (one left of the grid, one in its middle, its bottom right       *)
(* corner), the radius is the tool's                                       *)
(***************************************************************************)
DigCells ==
    {<<-1, 0>>, <<GridWidth \div 2, GridHeight \div 2 - 1>>,
     <<GridWidth - 1, GridHeight - 1>>}

Dig(x, y, tool_type, direction_angle) ==
    /\ digs < MaxDigs
    /\ tiles' = dig(tiles, x, y, dig_radius(tool_type), tool_type,
                    direction_angle)
    /\ digs' = digs + 1
    /\ last_dig' = [x |-> x, y |-> y, tool_type |-> tool_type]
    /\ UNCHANGED <<game_vars, log_vars, fall_vars>>

DigCall ==
    \E cell \in DigCells, tool_type \in {"drill", "dynamite", "laser",
                                         "torch"} :
        \E direction_angle \in IF tool_type = "torch"
                               THEN 1..Len(Directions)
                               ELSE IF tool_type = "drill" THEN {1, 3}
                               ELSE {1} :
            Dig(TILE_SIZE * cell[1] + TILE_SIZE \div 2,
                UI_HEIGHT + TILE_SIZE * cell[2] + TILE_SIZE \div 2,
                tool_type, direction_angle)

(***************************************************************************)
(* Game.__init__                                                           *)
(***************************************************************************)
Init ==
    /\ worms = [w \in Worms |-> Worm]
    /\ tombstones = <<>>
    /\ level = 1
    /\ events = 0
    /\ since_death = [w \in Worms |-> -1]
    /\ damage_log = {}
    /\ tiles = Uniform(EMPTY)
    /\ digs = 0
    /\ last_dig = None
    /\ loot_log = {}
    /\ blast_log = NoBlasts
    /\ body = Standing

Next == GameUpdate \/ KeyEvent \/ MouseEvent

Spec == Init /\ [][Next]_vars

(***************************************************************************)
(* The terrain under dig calls alone, from every initial grid              *)
(***************************************************************************)
InitDig ==
    /\ worms = [w \in Worms |-> Worm]
    /\ tombstones = <<>>
    /\ level = 1
    /\ events = 0
    /\ since_death = [w \in Worms |-> -1]
    /\ damage_log = {}
    /\ tiles \in InitialGrids
    /\ digs = 0
    /\ last_dig = None
    /\ loot_log = {}
    /\ blast_log = NoBlasts
    /\ body = Standing

NextDig == DigCall

SpecDig == InitDig /\ [][NextDig]_vars

(***************************************************************************)
(* The death and respawn path from any pool levels.  DamageStep is the     *)
(* damage step shared by Game.update (fall) and Game._check_tool_damage    *)
(* (tools): take_damage on the victim and, when it asks for it,            *)
(* _handle_worm_death.  RespawnStep is Game._handle_death_and_respawn.     *)
(***************************************************************************)
GasLevels == 0..MAX_GAS
ChargeLevels == 0..MaxCharges
BatteryLevels == {0, LASER_BATTERY_FULL * TimeScale}
FatalDamages == {fall_damage(d) : d \in FallDistances}

DamageStep(v, attacker, damage) ==
    LET damage_result == take_damage(worms[v], damage)
        g0 == [worms |-> [worms EXCEPT ![v] = damage_result.worm],
               tombstones |-> tombstones,
               calls |-> {damage_call(worms[v], damage_result)}]
        g1 == IF damage_result.needs_death_handling
              THEN handle_worm_death(g0, v, attacker)
              ELSE g0
        contacts == IF Vulnerable(v) THEN 1 ELSE 0
    IN  /\ events + contacts <= MaxEvents
        /\ worms' = g1.worms
        /\ tombstones' = g1.tombstones
        /\ damage_log' = g1.calls
        /\ events' = events + contacts
        /\ UNCHANGED <<level, since_death, terrain_vars, log_vars, fall_vars>>

RespawnStep(dt) ==
    /\ \E w \in Worms : worms[w].is_respawning \/ worms[w].spawn_protection > 0
    /\ worms' = handle_death_and_respawn(worms, dt)
    /\ UNCHANGED <<tombstones, level, events, since_death, damage_log,
                   terrain_vars, log_vars, fall_vars>>

\* the pool levels a run starts from: every level of one pool beside the
\* starting levels of the other two
PoolLevels ==
    {[gas |-> gas, dynamite_count |-> Worm.dynamite_count,
      laser_battery |-> Worm.laser_battery] : gas \in GasLevels}
    \cup {[gas |-> Worm.gas, dynamite_count |-> dynamite_count,
           laser_battery |-> Worm.laser_battery] :
              dynamite_count \in ChargeLevels}
    \cup {[gas |-> Worm.gas, dynamite_count |-> Worm.dynamite_count,
           laser_battery |-> laser_battery] :
              laser_battery \in BatteryLevels}

InitPools ==
    /\ \E pools \in PoolLevels :
           worms = [w \in Worms |->
                       [Worm EXCEPT !.gas = pools.gas,
                                    !.dynamite_count = pools.dynamite_count,
                                    !.laser_battery = pools.laser_battery]]
    /\ tombstones = <<>>
    /\ level = 1
    /\ events = 0
    /\ since_death = [w \in Worms |-> -1]
    /\ damage_log = {}
    /\ tiles = Uniform(EMPTY)
    /\ digs = 0
    /\ last_dig = None
    /\ loot_log = {}
    /\ blast_log = NoBlasts
    /\ body = Standing

NextPools ==
    \/ \E v \in Worms, damage \in FatalDamages :
           \E attacker \in {NoWorm} \cup (Worms \ {v}) :
               DamageStep(v, attacker, damage)
    \/ \E dt \in DtSet : RespawnStep(dt)

SpecPools == InitPools /\ [][NextPools]_vars

(***************************************************************************)
(* Tombstone.loot called on one tombstone, looted or not, by worms of any  *)
(* pool levels.  The amounts are those Worm.die stores for an empty, a     *)
(* starting and a full pool.                                               *)
(***************************************************************************)
StoredGas == {Max(1, tombstone_share(gas)) : gas \in {0, STARTING_GAS, MAX_GAS}}
StoredCharges ==
    {Max(0, tombstone_share(count)) : count \in {0, DYNAMITE_COUNT_START}}

LootCall(w) ==
    LET l == loot(tombstones[1], worms[w])
    IN  /\ worms' = [worms EXCEPT ![w] = l.worm]
        /\ tombstones' = <<l.tombstone>>
        /\ loot_log' = {loot_call(1, w, tombstones[1], worms[w], l)}
        /\ UNCHANGED <<level, events, since_death, damage_log, terrain_vars,
                       blast_log, fall_vars>>

InitLoot ==
    /\ \E pools \in PoolLevels :
           worms = [w \in Worms |->
                       [Worm EXCEPT !.gas = pools.gas,
                                    !.dynamite_count = pools.dynamite_count,
                                    !.laser_battery = pools.laser_battery]]
    /\ \E gas_amount \in StoredGas, dynamite_amount \in StoredCharges,
          is_looted \in BOOLEAN :
           tombstones = <<[gas_amount |-> gas_amount,
                           dynamite_amount |-> dynamite_amount,
                           deceased_worm_name |-> 1,
                           is_looted |-> is_looted]>>
    /\ level = 1
    /\ events = 0
    /\ since_death = [w \in Worms |-> -1]
    /\ damage_log = {}
    /\ tiles = Uniform(EMPTY)
    /\ digs = 0
    /\ last_dig = None
    /\ loot_log = {}
    /\ blast_log = NoBlasts
    /\ body = Standing

NextLoot == \E w \in Worms : LootCall(w)

SpecLoot == InitLoot /\ [][NextLoot]_vars

(***************************************************************************)
(* Explosions: Game.create_explosion with the dynamite and the small       *)
(* preset (explosion.py) on worms that are fresh, hurt, waiting to respawn *)
(* or protected after a respawn.  blast_log holds the explosion created by *)
(* the step, the squared distances it met the worms at and the list        *)
(* apply_damage returned; a run has one explosion.                         *)
(***************************************************************************)
create_explosion(explosion, distance2) ==
    LET b == apply_damage(worms, explosion, distance2)
    IN  /\ blast_log = NoBlasts
        /\ worms' = b.worms
        /\ damage_log' = b.calls
        /\ blast_log' = {[explosion |-> explosion, distance2 |-> distance2,
                          damaged_worms |-> b.damaged_worms]}
        /\ events' = events + 1
        /\ UNCHANGED <<tombstones, level, since_death, terrain_vars,
                       loot_log, fall_vars>>

CreateExplosion ==
    \E source_worm \in {NoWorm, 1}, distance2 \in [Worms -> BlastDistances2] :
        \E explosion \in {dynamite_explosion(source_worm),
                          small_explosion(source_worm)} :
            create_explosion(explosion, distance2)

Dying(v) ==
    die([w \in Worms |-> [Worm EXCEPT !.hp = 0]], v, NoWorm).worms[v]

BlastWorms(v) ==
    {Worm, [Worm EXCEPT !.hp = LASER_DAMAGE + LASER_DAMAGE],
     Dying(v), respawn(Dying(v))}

InitBlast ==
    /\ worms \in [Worms -> UNION {BlastWorms(v) : v \in Worms}]
    /\ \A v \in Worms : worms[v] \in BlastWorms(v)
    /\ tombstones = <<>>
    /\ level = 1
    /\ events = 0
    /\ since_death = [w \in Worms |-> -1]
    /\ damage_log = {}
    /\ tiles = Uniform(EMPTY)
    /\ digs = 0
    /\ last_dig = None
    /\ loot_log = {}
    /\ blast_log = NoBlasts
    /\ body = Standing

NextBlast == CreateExplosion

SpecBlast == InitBlast /\ [][NextBlast]_vars

(***************************************************************************)
(* Falling (Worm.update "Apply gravity", Worm._apply_physics_movement over *)
(* flat ground).  Time is counted in frames of 1/FPS s, velocities in      *)
(* 1/VelUnits pixel per second and heights in 1/PosUnits pixel, so that    *)
(* GRAVITY * dt and vel_y * dt are whole numbers.  body.y is the height of *)
(* the worm's lowest point, growing downwards; body.floor_y the top of the *)
(* ground; body.left_y the height at which the worm left the ground last;  *)
(* body.damage the fall damage of the last update.                         *)
(***************************************************************************)
FPS == 60
GRAVITY == 400
TERMINAL_VELOCITY == 300
FALL_DAMAGE_VELOCITY_THRESHOLD == 100
max_position_change == 200
ground_check_distance == 3

VelUnits == 3
PosUnits == VelUnits * FPS

check_collision(b, y) == y >= b.floor_y

check_ground_below(b) ==
    \/ b.y + ground_check_distance * PosUnits >= b.floor_y
    \/ b.y + PosUnits >= b.floor_y

\* "Apply gravity" of Worm.update, dt frames
apply_gravity(b, dt) ==
    IF ~b.on_ground
    THEN [b EXCEPT !.vel_y =
             Min(TERMINAL_VELOCITY * VelUnits,
                 @ + (GRAVITY * VelUnits * dt) \div FPS)]
    ELSE b

\* damage of a landing whose distance_fallen is the given number of
\* position units: max(1, int((distance_fallen - 50) * 0.8))
landing_damage(distance_fallen) ==
    IF distance_fallen >= FALL_DAMAGE_START_HEIGHT * PosUnits
    THEN Max(1, ((distance_fallen - FALL_DAMAGE_START_HEIGHT * PosUnits)
                     * FALL_DAMAGE_MULTIPLIER) \div (10 * PosUnits))
    ELSE 0

\* Worm._apply_physics_movement, vertical part, dt frames
apply_physics_movement(b, dt) ==
    LET old_y == b.y
        old_vel_y == b.vel_y
        was_falling == ~b.on_ground /\ old_vel_y > 0
        capped == b.vel_y * dt > max_position_change * PosUnits
        new_y == IF capped THEN b.y + max_position_change * PosUnits
                 ELSE b.y + b.vel_y * dt
        b1 == IF capped
              THEN [b EXCEPT !.vel_y = Min(@, 500 * VelUnits)]
              ELSE b
        b2 == IF ~check_collision(b1, new_y)
              THEN [b1 EXCEPT !.y = new_y,
                              !.on_ground = IF @ /\ b1.vel_y > 0
                                            THEN FALSE ELSE @,
                              !.left_y = IF b1.on_ground /\ b1.vel_y > 0
                                         THEN old_y ELSE @,
                              !.damage = 0]
              ELSE IF b1.vel_y > 0
              THEN [b1 EXCEPT
                       !.on_ground = TRUE,
                       !.vel_y = 0,
                       !.damage =
                           IF was_falling /\ ~b1.on_ground
                              /\ old_vel_y > FALL_DAMAGE_VELOCITY_THRESHOLD
                                               * VelUnits
                           THEN landing_damage(new_y - old_y)
                           ELSE 0]
              ELSE [b1 EXCEPT !.damage = 0]
    IN  IF b2.on_ground /\ ~check_ground_below(b2)
        THEN [b2 EXCEPT !.on_ground = FALSE, !.left_y = b2.y]
        ELSE b2

\* the frame lengths of a tick: one frame of 1/FPS s, or whole seconds
FallDts == {1} \cup {FPS * dt : dt \in DtSet}

\* the drops, in pixels, from the point where the worm is created in the
\* air (Worm.__init__: on_ground = False, vel_y = 0) down to the ground
FallHeights == {2, 60, 250}

\* Worm.update of the first worm, gravity and physics only, and the death
\* handling of Game.update that follows it
FallUpdate(dt) ==
    /\ ~worms[1].is_respawning
    /\ \E b \in {apply_physics_movement(apply_gravity(body, dt), dt)} :
       \E damage_result \in {take_damage(worms[1], b.damage)} :
       \E g \in {[worms |-> IF b.damage > 0
                            THEN [worms EXCEPT ![1] = damage_result.worm]
                            ELSE worms,
                  tombstones |-> tombstones,
                  calls |-> IF b.damage > 0
                            THEN {damage_call(worms[1], damage_result)}
                            ELSE {}]} :
       \E g1 \in {IF b.damage > 0 /\ damage_result.needs_death_handling
                  THEN handle_worm_death(g, 1, NoWorm) ELSE g} :
           /\ body' = b
           /\ worms' = g1.worms
           /\ tombstones' = g1.tombstones
           /\ damage_log' = g1.calls
           /\ UNCHANGED <<level, events, since_death, terrain_vars,
                          log_vars>>

InitFall ==
    /\ worms = [w \in Worms |-> Worm]
    /\ tombstones = <<>>
    /\ level = 1
    /\ events = 0
    /\ since_death = [w \in Worms |-> -1]
    /\ damage_log = {}
    /\ tiles = Uniform(EMPTY)
    /\ digs = 0
    /\ last_dig = None
    /\ loot_log = {}
    /\ blast_log = NoBlasts
    /\ \E height \in FallHeights :
           body = [Standing EXCEPT !.on_ground = FALSE,
                                   !.floor_y = height * PosUnits]

NextFall == \E dt \in FallDts : FallUpdate(dt)

SpecFall == InitFall /\ [][NextFall]_vars

(***************************************************************************)
(* Falling out of the world (Worm.update: horizontal input, gravity,       *)
(* physics, "vertical screen wrapping").  Here body.y is the height of the *)
(* worm's reference point on the screen, body.floor_y the height at which  *)
(* it would first collide, body.vel_x its horizontal velocity in whole     *)
(* pixels per second (the source's floats are cut to whole numbers),       *)
(* body.fell_to the height the physics moved the worm to before the wrap   *)
(* test, body.wraps the number of wraps so far.                            *)
(***************************************************************************)
SCREEN_HEIGHT == 1080
WORM_SPEED == 100
MaxWraps == 2

wrap_y_position == UI_HEIGHT + 50

\* no terrain below the worm: Terrain.get_tile returns EMPTY below the map
Bottomless == (SCREEN_HEIGHT + WORM_RADIUS + max_position_change + 1)
                  * PosUnits

\* "Apply horizontal movement" of Worm.update: the key sets the velocity,
\* without a key the ground friction (0.8) or air resistance (0.95) acts
horizontal_movement(b, horizontal_input) ==
    IF horizontal_input # 0
    THEN [b EXCEPT !.vel_x = horizontal_input * WORM_SPEED]
    ELSE IF b.on_ground
    THEN [b EXCEPT !.vel_x = (@ * 80) \div 100]
    ELSE [b EXCEPT !.vel_x = (@ * 95) \div 100]

\* the wrap that leaves the horizontal velocity as it is
screen_wrap_drifting(b) ==
    IF b.y > (SCREEN_HEIGHT + WORM_RADIUS) * PosUnits
    THEN [b EXCEPT !.y = wrap_y_position * PosUnits,
                   !.vel_y = 50 * VelUnits,
                   !.on_ground = FALSE,
                   !.can_jump = FALSE,
                   !.wraps = @ + 1]
    ELSE b

\* "Handle vertical screen wrapping" of Worm.update
screen_wrap(b) ==
    IF b.y > (SCREEN_HEIGHT + WORM_RADIUS) * PosUnits
    THEN [b EXCEPT !.y = wrap_y_position * PosUnits,
                   !.vel_y = 50 * VelUnits,
                   !.vel_x = 0,
                   !.on_ground = FALSE,
                   !.can_jump = FALSE,
                   !.wraps = @ + 1]
    ELSE b

\* "Very minimal top boundary check" of Worm.update
top_boundary(b) ==
    IF b.y < (0 - 50) * PosUnits
    THEN [b EXCEPT !.y = wrap_y_position * PosUnits,
                   !.vel_y = Max(0, @)]
    ELSE b

\* the movement of Worm.update: horizontal input, gravity, physics, wrap
worm_movement(b, dt, horizontal_input) ==
    LET moved == apply_physics_movement(
                     apply_gravity(horizontal_movement(b, horizontal_input),
                                   dt), dt)
        landed == [moved EXCEPT !.can_jump = @ \/ (moved.on_ground
                                                      /\ ~b.on_ground),
                                !.fell_to = moved.y]
    IN  top_boundary(screen_wrap(landed))

\* Worm.update of the first worm, movement only, and the death handling of
\* Game.update that follows it
WrapUpdate(dt, horizontal_input) ==
    /\ ~worms[1].is_respawning
    /\ body.wraps < MaxWraps
    /\ \E b \in {worm_movement(body, dt, horizontal_input)} :
       \E damage_result \in {take_damage(worms[1], b.damage)} :
       \E g \in {[worms |-> IF b.damage > 0
                            THEN [worms EXCEPT ![1] = damage_result.worm]
                            ELSE worms,
                  tombstones |-> tombstones,
                  calls |-> IF b.damage > 0
                            THEN {damage_call(worms[1], damage_result)}
                            ELSE {}]} :
       \E g1 \in {IF b.damage > 0 /\ damage_result.needs_death_handling
                  THEN handle_worm_death(g, 1, NoWorm) ELSE g} :
           /\ body' = b
           /\ worms' = g1.worms
           /\ tombstones' = g1.tombstones
           /\ damage_log' = g1.calls
           /\ UNCHANGED <<level, events, since_death, terrain_vars,
                          log_vars>>

\* the heights, in pixels, at which the worm starts in the air: the top
\* band, and the lower part of the map
WrapStarts == {wrap_y_position, 1000}

\* what is below the worm: a pit through the bottom row of the map, or
\* ground whose top the worm touches at the given height
WrapFloors == {Bottomless, 1050 * PosUnits}

InitWrap ==
    /\ worms = [w \in Worms |-> Worm]
    /\ tombstones = <<>>
    /\ level = 1
    /\ events = 0
    /\ since_death = [w \in Worms |-> -1]
    /\ damage_log = {}
    /\ tiles = Uniform(EMPTY)
    /\ digs = 0
    /\ last_dig = None
    /\ loot_log = {}
    /\ blast_log = NoBlasts
    /\ \E start \in WrapStarts, floor \in WrapFloors :
           body = [y |-> start * PosUnits, vel_y |-> 0, vel_x |-> 0,
                   on_ground |-> FALSE, can_jump |-> FALSE,
                   left_y |-> start * PosUnits, floor_y |-> floor,
                   damage |-> 0, fell_to |-> start * PosUnits, wraps |-> 0]

NextWrap ==
    \E dt \in FallDts, horizontal_input \in {0, 1} :
        WrapUpdate(dt, horizontal_input)

SpecWrap == InitWrap /\ [][NextWrap]_vars

(***************************************************************************)
(* The game from pool levels around the cost of one tool use: every worm   *)
(* starts with the drawn gas, charge count and battery, the first worm     *)
(* with the drawn tool selected                                            *)
(***************************************************************************)
ToolLevels ==
    [gas : {TORCH_GAS_COST - 1, TORCH_GAS_COST},
     dynamite_count : {0, 1},
     laser_battery : {LASER_SHOT_COST * TimeScale - 1,
                      LASER_SHOT_COST * TimeScale}]

InitTools ==
    /\ \E pools \in ToolLevels, index \in 0..(Len(tools) - 1) :
           worms = [w \in Worms |->
                       [Worm EXCEPT !.gas = pools.gas,
                                    !.dynamite_count = pools.dynamite_count,
                                    !.laser_battery = pools.laser_battery,
                                    !.current_tool_index =
                                        IF w = 1 THEN index ELSE @]]
    /\ tombstones = <<>>
    /\ level = 1
    /\ events = 0
    /\ since_death = [w \in Worms |-> -1]
    /\ damage_log = {}
    /\ tiles = Uniform(EMPTY)
    /\ digs = 0
    /\ last_dig = None
    /\ loot_log = {}
    /\ blast_log = NoBlasts
    /\ body = Standing

NextTools == GameUpdate \/ KeyEvent \/ MouseEvent

SpecTools == InitTools /\ [][NextTools]_vars

(***************************************************************************)
(* The resource pools under the methods that write them, called in any     *)
(* order from pool levels at and around their limits: the input events     *)
(* (tool use, throw), Worm.update of every worm (battery, item pickup),    *)
(* the damage step (death), Game._handle_death_and_respawn,                *)
(* Game._update_tombstones (loot) and Game._next_level.  A run starts with *)
(* one event left in the event budget: one player input, item or damaging  *)
(* contact, and any number of the other steps.                             *)
(***************************************************************************)
ReserveLevels ==
    [gas : {0, TORCH_GAS_COST, MAX_GAS - 1},
     dynamite_count : {0, 1},
     laser_battery : {0, LASER_SHOT_COST * TimeScale,
                      LASER_BATTERY_FULL * TimeScale - 5}]

UpdateStep(dt, found) ==
    /\ events + Pickups(found) <= MaxEvents
    /\ \E solid \in SolidInputs(dt) :
           worms' = update_worms([worms |-> worms, tombstones |-> tombstones,
                                  calls |-> {}], 1, dt,
                                 [w \in Worms |-> 0], solid, found).worms
    /\ events' = events + Pickups(found)
    /\ UNCHANGED <<tombstones, level, since_death, damage_log,
                   terrain_vars, log_vars, fall_vars>>

LootStep ==
    /\ tombstones # <<>>
    /\ \E near \in NearInputs(tombstones) :
       \E g \in {update_tombstones([worms |-> worms, tombstones |-> <<>>,
                                    loots |-> {}], tombstones, 1, near)} :
           /\ worms' = g.worms
           /\ tombstones' = g.tombstones
           /\ loot_log' = g.loots
    /\ UNCHANGED <<level, events, since_death, damage_log, terrain_vars,
                   blast_log, fall_vars>>

LevelStep ==
    /\ level < MaxLevel
    /\ worms' = next_level(worms)
    /\ level' = level + 1
    /\ UNCHANGED <<tombstones, events, since_death, damage_log, terrain_vars,
                   log_vars, fall_vars>>

InitReserves ==
    /\ \E pools \in ReserveLevels, index \in 0..(Len(tools) - 1) :
           worms = [w \in Worms |->
                       [Worm EXCEPT !.gas = pools.gas,
                                    !.dynamite_count = pools.dynamite_count,
                                    !.laser_battery = pools.laser_battery,
                                    !.current_tool_index =
                                        IF w = 1 THEN index ELSE @]]
    /\ tombstones = <<>>
    /\ level = 1
    /\ events = MaxEvents - 1
    /\ since_death = [w \in Worms |-> -1]
    /\ damage_log = {}
    /\ tiles = Uniform(EMPTY)
    /\ digs = 0
    /\ last_dig = None
    /\ loot_log = {}
    /\ blast_log = NoBlasts
    /\ body = Standing

NextReserves ==
    \/ KeyEvent
    \/ MouseEvent
    \/ \E dt \in DtSet, found \in ItemInputs : UpdateStep(dt, found)
    \/ \E v \in Worms, damage \in FatalDamages :
           \E attacker \in {NoWorm} \cup (Worms \ {v}) :
               DamageStep(v, attacker, damage)
    \/ \E dt \in DtSet : RespawnStep(dt)
    \/ LootStep
    \/ LevelStep

SpecReserves == InitReserves /\ [][NextReserves]_vars

(***************************************************************************)
(* The death counters under the damage step with every source a death     *)
(* can have (nobody, another worm, the victim itself: the source that the  *)
(* dynamite loop of Game._check_tool_damage passes), the respawn handling  *)
(* and the level transition.                                               *)
(***************************************************************************)
NextDeaths ==
    \/ \E v \in Worms, damage \in FatalDamages :
           \E attacker \in {NoWorm} \cup Worms :
               DamageStep(v, attacker, damage)
    \/ \E dt \in DtSet : RespawnStep(dt)
    \/ LevelStep

SpecDeaths == Init /\ [][NextDeaths]_vars

(***************************************************************************)
(* Game._find_safe_spawn_location for the first worm, one step per attempt *)
(* of its loop: the random sample of the attempt is an input.  Heights and *)
(* widths are whole pixels.  The terrain is flat ground whose top row      *)
(* starts at height body.top (Bottomless: no ground); the other worm is    *)
(* not dead and has its head at (body.other_x, body.other_y).  body.done   *)
(* tells that the method has returned (body.x, body.y), body.fallback that *)
(* it returned its default.                                                *)
(***************************************************************************)
SCREEN_WIDTH == 1920
MIN_SPAWN_DISTANCE == 100
max_attempts == 20

is_solid(b, x, y) == b.top # Bottomless /\ y >= b.top

\* "Find ground level below spawn point": down in steps of 5 pixels
RECURSIVE find_ground(_, _, _)
find_ground(b, x, ground_y) ==
    IF ground_y < SCREEN_HEIGHT - 50 /\ ~is_solid(b, x, ground_y)
    THEN find_ground(b, x, ground_y + 5)
    ELSE ground_y

\* "Check distance from other living worms" for the one other worm
too_close(b, x, y) ==
    (x - b.other_x) * (x - b.other_x) + (y - b.other_y) * (y - b.other_y)
        < MIN_SPAWN_DISTANCE * MIN_SPAWN_DISTANCE

\* one pass of the while loop with the sample (spawn_x, spawn_y)
spawn_attempt(b, spawn_x, spawn_y) ==
    IF ~too_close(b, spawn_x, spawn_y) /\ ~is_solid(b, spawn_x, spawn_y)
    THEN [b EXCEPT !.done = TRUE,
                   !.x = spawn_x,
                   !.y = Max(spawn_y, find_ground(b, spawn_x, spawn_y)
                                          - WORM_RADIUS - 10)]
    ELSE [b EXCEPT !.attempts = @ + 1]

SpawnAttempt(spawn_x, spawn_y) ==
    /\ ~body.done
    /\ body.attempts < max_attempts
    /\ body' = spawn_attempt(body, spawn_x, spawn_y)
    /\ UNCHANGED <<game_vars, terrain_vars, log_vars>>

\* "Fallback: spawn at default location if no safe spot found"
SpawnFallback ==
    /\ ~body.done
    /\ body.attempts >= max_attempts
    /\ body' = [body EXCEPT !.done = TRUE, !.fallback = TRUE,
                            !.x = 200, !.y = UI_HEIGHT + 150]
    /\ UNCHANGED <<game_vars, terrain_vars, log_vars>>

\* the samples: random.uniform over the band, its corners and its middle
SpawnXs == {WORM_RADIUS + 50, 200, SCREEN_WIDTH - WORM_RADIUS - 50}
SpawnYs == {UI_HEIGHT + 100, UI_HEIGHT + 200, UI_HEIGHT + 300}

\* ground that starts inside the band, ground below the band, no ground
SpawnGrounds == {UI_HEIGHT + 25 * TILE_SIZE, UI_HEIGHT + 75 * TILE_SIZE,
                 Bottomless}

\* the head of the other worm: on a sample, next to the 200-pixel column
\* on the ground below the band, or far from every sample
SpawnOthers == {<<200, UI_HEIGHT + 100>>,
                <<230, UI_HEIGHT + 75 * TILE_SIZE - WORM_RADIUS>>,
                <<1000, UI_HEIGHT + 75 * TILE_SIZE - WORM_RADIUS>>}

InitSpawn ==
    /\ worms = [w \in Worms |-> Worm]
    /\ tombstones = <<>>
    /\ level = 1
    /\ events = 0
    /\ since_death = [w \in Worms |-> -1]
    /\ damage_log = {}
    /\ tiles = Uniform(EMPTY)
    /\ digs = 0
    /\ last_dig = None
    /\ loot_log = {}
    /\ blast_log = NoBlasts
    /\ \E top \in SpawnGrounds, other \in SpawnOthers :
           body = [attempts |-> 0, done |-> FALSE, fallback |-> FALSE,
                   x |-> 0, y |-> 0, top |-> top,
                   other_x |-> other[1], other_y |-> other[2]]

NextSpawn ==
    \/ \E spawn_x \in SpawnXs, spawn_y \in SpawnYs :
           SpawnAttempt(spawn_x, spawn_y)
    \/ SpawnFallback

SpecSpawn == InitSpawn /\ [][NextSpawn]_vars

(***************************************************************************)
(* The tick with the terrain it digs.  Game.update runs Worm.update for    *)
(* each worm in list order, and Worm.update digs the crater of a charge    *)
(* that signals its explosion, then applies the physics with the fall      *)
(* damage of a landing, then digs for the pending request; the tool damage *)
(* and the explosions follow when every worm is updated.  place[i] is      *)
(* where worm i stands and where its target (and its charge) lies.         *)
(* body.effects lists what the tick did to terrain and to health, in       *)
(* program order: a "dig" with whether a cell changed, a "damage" when a   *)
(* worm lost health.                                                       *)
(***************************************************************************)
\* Worm._dig_laser_line: a dig with the laser radius at each of the
\* steps + 1 points of the line from the worm to the target
dig_laser_line(t, start_x, start_y, end_x, end_y) ==
    LET dx == IF end_x >= start_x THEN end_x - start_x ELSE start_x - end_x
        dy == IF end_y >= start_y THEN end_y - start_y ELSE start_y - end_y
        steps == Max(dx, dy)
        laser_radius == LASER_WIDTH \div 2
        RECURSIVE points(_, _)
        points(t0, i) ==
            IF i > steps THEN t0
            ELSE Apply(LAMBDA t1 : points(t1, i + 1),
                       dig(t0, start_x + Trunc(i * (end_x - start_x), steps),
                           start_y + Trunc(i * (end_y - start_y), steps),
                           laser_radius, "laser", 1))
    IN  IF steps = 0 THEN t ELSE points(t, 0)

\* Worm.update, "Handle tool usage": the dig of the request
use_dig_request(t, tool, at) ==
    IF tool = "laser"
    THEN dig_laser_line(t, at.x, at.y, at.target_x, at.target_y)
    ELSE dig(t, at.target_x, at.target_y, dig_radius(tool), tool,
             at.direction_angle)

\* s = [g, tiles, effects]: the game record, the grid and the effects so far
update_worm_terrain(s, i, dt, fall, solid, found, place) ==
    LET worm == s.g.worms[i]
        signals == {k \in DOMAIN worm.thrown_dynamites :
                       dynamite_update(worm.thrown_dynamites[k], dt,
                                       solid[i][k]).exploded}
        t1 == IF signals = {} THEN s.tiles
              ELSE dig(s.tiles, place[i].target_x, place[i].target_y,
                       DYNAMITE_RADIUS, "dynamite", 1)
        g1 == update_worm(s.g, i, dt, fall, solid, found)
        t2 == IF worm.dig_request = None THEN t1
              ELSE use_dig_request(t1, worm.dig_request, place[i])
    IN  [g |-> g1,
         tiles |-> t2,
         effects |-> s.effects
             \o (IF signals = {} THEN <<>>
                 ELSE <<[kind |-> "dig", worm |-> i,
                         changed |-> t1 # s.tiles]>>)
             \o (IF g1.worms[i].hp < worm.hp
                 THEN <<[kind |-> "damage", worm |-> i, changed |-> TRUE]>>
                 ELSE <<>>)
             \o (IF worm.dig_request = None THEN <<>>
                 ELSE <<[kind |-> "dig", worm |-> i,
                         changed |-> t2 # t1]>>)]

RECURSIVE update_worms_terrain(_, _, _, _, _, _, _)
update_worms_terrain(s, i, dt, fall, solid, found, place) ==
    IF i > NumWorms THEN s
    ELSE Apply(LAMBDA s0 : update_worms_terrain(
                   update_worm_terrain(s0, i, dt, fall, solid, found, place),
                   i + 1, dt, fall, solid, found, place), s)

\* a worm in the top left cell aiming down and right at the middle of the
\* grid, and a worm in the middle aiming left at a point beside the grid
Places ==
    {[x |-> TILE_SIZE + TILE_SIZE \div 2,
      y |-> UI_HEIGHT + TILE_SIZE + TILE_SIZE \div 2,
      target_x |-> TILE_SIZE * (GridWidth \div 2) + TILE_SIZE \div 2,
      target_y |-> UI_HEIGHT + TILE_SIZE * (GridHeight \div 2)
                       + TILE_SIZE \div 2,
      direction_angle |-> 2],
     [x |-> TILE_SIZE * (GridWidth \div 2) + TILE_SIZE \div 2,
      y |-> UI_HEIGHT + TILE_SIZE * (GridHeight \div 2) + TILE_SIZE \div 2,
      target_x |-> 0 - TILE_SIZE \div 2,
      target_y |-> UI_HEIGHT + TILE_SIZE * (GridHeight \div 2)
                       + TILE_SIZE \div 2,
      direction_angle |-> 4]}

GameUpdateTerrain ==
    \E dt \in DtSet, found \in TickItems, place \in [Worms -> Places] :
        \E fall \in [Worms -> {0} \cup {fall_damage(d) : d \in FallDistances}],
           hits \in SUBSET PossibleHits :
        \E solid \in SolidInputs(dt), distance2 \in BlastInputs :
        \E s \in {update_worms_terrain(
                      [g |-> [worms |-> worms, tombstones |-> tombstones,
                              calls |-> {}, explosions |-> NoBlasts],
                       tiles |-> tiles, effects |-> <<>>],
                      1, dt, fall, solid, found, place)} :
        \E g2 \in {damage_phase(worms, tombstones, dt, fall, hits, solid,
                                distance2, found)} :
            /\ \A w \in Worms : fall[w] \in FallInputs(w)
            /\ events + Contacts(fall, hits) <= MaxEvents
            /\ update(dt, fall, hits, FALSE, found, solid, distance2)
            /\ tiles' = s.tiles
            /\ body' = [effects |-> s.effects
                   \o [k \in 1..Cardinality({w \in Worms :
                                  g2.worms[w].hp < s.g.worms[w].hp}) |->
                          [kind |-> "damage", worm |-> NoWorm,
                           changed |-> TRUE]]]
            /\ UNCHANGED <<digs, last_dig>>

InitOrder ==
    /\ worms = [w \in Worms |-> Worm]
    /\ tombstones = <<>>
    /\ level = 1
    /\ events = MaxEvents - 2
    /\ since_death = [w \in Worms |-> -1]
    /\ damage_log = {}
    /\ tiles \in {Uniform(DIRT), Layered(1)}
    /\ digs = 0
    /\ last_dig = None
    /\ loot_log = {}
    /\ blast_log = NoBlasts
    /\ body = [effects |-> <<>>]

NextOrder == GameUpdateTerrain \/ KeyEvent \/ MouseEvent

SpecOrder == InitOrder /\ [][NextOrder]_vars

(***************************************************************************)
(* The tick where any worm can lie in the footprint of any tool use, the   *)
(* user's own included, from worms that are fresh, hurt, waiting to        *)
(* respawn or protected, with or without a pending request, while no worm  *)
(* reaches the goal                                                        *)
(***************************************************************************)
GameUpdateFootprints ==
    \E dt \in DtSet :
        \E fall \in [Worms -> {0} \cup {fall_damage(d) : d \in FallDistances}],
           hits \in SUBSET (Worms \X Worms), found \in TickItems :
            /\ \A w \in Worms : fall[w] \in FallInputs(w)
            /\ events + Contacts(fall, hits) <= MaxEvents
            /\ Tick(dt, fall, hits, FALSE, found)

FootprintWorms(v) ==
    {[worm EXCEPT !.dig_request = request] :
        worm \in BlastWorms(v) \cup {[Worm EXCEPT !.hp = TORCH_DAMAGE]},
        request \in {None, "drill", "dynamite", "torch", "laser"}}

InitFootprints ==
    /\ worms \in [Worms -> UNION {FootprintWorms(v) : v \in Worms}]
    /\ \A v \in Worms : worms[v] \in FootprintWorms(v)
    /\ tombstones = <<>>
    /\ level = 1
    /\ events = MaxEvents - 1
    /\ since_death = [w \in Worms |-> -1]
    /\ damage_log = {}
    /\ tiles = Uniform(EMPTY)
    /\ digs = 0
    /\ last_dig = None
    /\ loot_log = {}
    /\ blast_log = NoBlasts
    /\ body = Standing

NextFootprints == GameUpdateFootprints

SpecFootprints == InitFootprints /\ [][NextFootprints]_vars

(***************************************************************************)
(* The laser shot.  Game._check_tool_damage, tool "laser": the victim is   *)
(* damaged when its distance to the line through the attacker's head and   *)
(* the target is at most LASER_WIDTH // 2 and its distance to the head is  *)
(* at most the distance of the target.  With the line's direction          *)
(* (dx, dy) the distance to the line is |cross| / line_length, so the two  *)
(* tests compare squares of integers.                                      *)
(***************************************************************************)
laser_damage_area(head_x, head_y, target_x, target_y, victim_x, victim_y) ==
    LET line_length2 == (target_x - head_x) * (target_x - head_x)
                            + (target_y - head_y) * (target_y - head_y)
        cross == (target_y - head_y) * victim_x
                     - (target_x - head_x) * victim_y
                     + target_x * head_y - target_y * head_x
        victim_distance2 == (victim_x - head_x) * (victim_x - head_x)
                                + (victim_y - head_y) * (victim_y - head_y)
    IN  /\ line_length2 > 0
        /\ cross * cross
               <= (LASER_WIDTH \div 2) * (LASER_WIDTH \div 2) * line_length2
        /\ victim_distance2 <= line_length2

\* body = [head, target, victim, shot]: worm 1 fires from head at target,
\* worm 2 has its reference point at victim
LaserTick ==
    \E dt \in DtSet :
    \E solid \in SolidInputs(dt), distance2 \in BlastInputs :
    \E hits \in {{p \in Worms \X Worms :
                     /\ p[1] = 1
                     /\ worms[1].dig_request = "laser"
                     /\ LET at == IF p[2] = 1 THEN body.head
                                  ELSE body.victim
                        IN  laser_damage_area(body.head[1], body.head[2],
                                              body.target[1], body.target[2],
                                              at[1], at[2])}} :
        /\ update(dt, [w \in Worms |-> 0], hits, FALSE,
                  [w \in Worms |-> None], solid, distance2)
        /\ tiles' = IF worms[1].dig_request = "laser"
                    THEN dig_laser_line(tiles, body.head[1], body.head[2],
                                        body.target[1], body.target[2])
                    ELSE tiles
        /\ body' = [body EXCEPT !.shot = (worms[1].dig_request = "laser")]
        /\ UNCHANGED <<digs, last_dig>>

\* the head in the middle of the grid; targets to the right, below and to
\* the right, above, and the head itself; victims around the head
LaserHead ==
    <<TILE_SIZE * (GridWidth \div 2) + TILE_SIZE \div 2,
      UI_HEIGHT + TILE_SIZE * (GridHeight \div 2) + TILE_SIZE \div 2>>

LaserTargets ==
    {<<LaserHead[1] + x, LaserHead[2] + y>> :
        <<x, y>> \in {<<24, 0>>, <<18, 18>>, <<0, -24>>, <<0, 0>>}}

LaserVictims ==
    {<<LaserHead[1] + x, LaserHead[2] + y>> :
        x \in {-20, -6, 0, 12, 24, 30}, y \in {-12, -9, -8, 0, 8, 12}}

InitLaser ==
    /\ worms = [w \in Worms |->
                   IF w = 1 THEN [use_tool([Worm EXCEPT
                                                !.current_tool_index = 3],
                                           TRUE, FALSE)
                                     EXCEPT !.hp = TORCH_DAMAGE]
                   ELSE Worm]
    /\ tombstones = <<>>
    /\ level = 1
    /\ events = 0
    /\ since_death = [w \in Worms |-> -1]
    /\ damage_log = {}
    /\ tiles = Uniform(ROCK)
    /\ digs = 0
    /\ last_dig = None
    /\ loot_log = {}
    /\ blast_log = NoBlasts
    /\ \E target \in LaserTargets, victim \in LaserVictims :
           body = [head |-> LaserHead, target |-> target, victim |-> victim,
                   shot |-> FALSE]

NextLaser == LaserTick

SpecLaser == InitLaser /\ [][NextLaser]_vars

(***************************************************************************)
(* Aiming (Worm.update "Apply horizontal movement" and                     *)
(* Worm._update_tool_direction).  Angles are whole numbers of steps, a     *)
(* quarter turn (pi / 2) being QuarterTurn steps, in [-HalfTurn, HalfTurn]; *)
(* a step is the angle that angle_interpolation_speed = 3.0 rad/s and the  *)
(* key rotation speed of 3.0 rad/s cover in one unit of dt.  The cosine of *)
(* an angle is positive when the angle is less than a quarter turn from 0, *)
(* zero at a quarter turn, negative beyond.                                *)
(* body = [facing_direction, tool_target_angle, tool_current_angle,        *)
(* angle_locked].                                                          *)
(***************************************************************************)
QuarterTurn == 3
HalfTurn == 2 * QuarterTurn

\* the while loops that bring an angle back into [-pi, pi]
normalize_angle(angle) ==
    IF angle > HalfTurn THEN angle - 2 * HalfTurn
    ELSE IF angle < -HalfTurn THEN angle + 2 * HalfTurn
    ELSE angle

\* math.atan2(sin(angle), -cos(angle))
mirrored_angle(angle) ==
    IF angle = -HalfTurn THEN 0
    ELSE IF angle >= 0 THEN HalfTurn - angle
    ELSE -HalfTurn - angle

constrain_angle_to_facing_direction(facing_direction, angle) ==
    IF facing_direction > 0
    THEN IF angle > QuarterTurn THEN QuarterTurn
         ELSE IF angle < -QuarterTurn THEN -QuarterTurn
         ELSE angle
    ELSE IF angle > -QuarterTurn /\ angle < QuarterTurn
         THEN IF angle >= 0 THEN QuarterTurn ELSE -QuarterTurn
         ELSE angle

mirror_angle_for_direction_change(b) ==
    IF b.angle_locked
    THEN LET new_angle == constrain_angle_to_facing_direction(
                              b.facing_direction,
                              mirrored_angle(b.tool_current_angle))
         IN  [b EXCEPT !.tool_target_angle = new_angle,
                       !.tool_current_angle = new_angle]
    ELSE b

\* Worm.update, "Apply horizontal movement": the facing direction follows
\* the movement input
face(b, horizontal_input) ==
    IF horizontal_input # 0
    THEN IF b.facing_direction # horizontal_input
         THEN mirror_angle_for_direction_change(
                  [b EXCEPT !.facing_direction = horizontal_input])
         ELSE b
    ELSE b

\* keys = [any_direction_key_pressed, significant_input, turn]:
\* significant_input is total_input > 0.05, the pressed direction keys have
\* been held long enough to count; turn is the sign of the rotation they
\* add up to
update_tool_direction(b, dt, keys) ==
    LET b1 == IF keys.any_direction_key_pressed /\ ~keys.significant_input
              THEN b
              ELSE IF keys.any_direction_key_pressed
              THEN [b EXCEPT
                       !.tool_target_angle =
                           constrain_angle_to_facing_direction(
                               b.facing_direction,
                               normalize_angle(@ + keys.turn * dt)),
                       !.angle_locked = TRUE]
              ELSE IF ~b.angle_locked
              THEN [b EXCEPT !.tool_target_angle =
                       IF b.facing_direction > 0 THEN 0 ELSE HalfTurn]
              ELSE [b EXCEPT !.tool_target_angle =
                       LET cos_positive ==
                               /\ b.tool_current_angle < QuarterTurn
                               /\ b.tool_current_angle > -QuarterTurn
                           cos_negative ==
                               \/ b.tool_current_angle > QuarterTurn
                               \/ b.tool_current_angle < -QuarterTurn
                       IN  IF (b.facing_direction > 0 /\ cos_negative)
                              \/ (b.facing_direction <= 0 /\ cos_positive)
                           THEN mirrored_angle(b.tool_current_angle)
                           ELSE IF b.tool_current_angle = -HalfTurn
                           THEN HalfTurn
                           ELSE b.tool_current_angle]
        angle_diff == normalize_angle(b1.tool_target_angle
                                          - b1.tool_current_angle)
        max_change == dt
    IN  IF angle_diff <= max_change /\ -angle_diff <= max_change
        THEN [b1 EXCEPT !.tool_current_angle = b1.tool_target_angle]
        ELSE [b1 EXCEPT !.tool_current_angle =
                 normalize_angle(@ + (IF angle_diff > 0 THEN max_change
                                      ELSE -max_change))]

\* Worm.update of a worm that is not respawning, as far as its aim goes
AimUpdate(dt, horizontal_input, keys) ==
    /\ body' = update_tool_direction(face(body, horizontal_input), dt, keys)
    /\ UNCHANGED <<game_vars, terrain_vars, log_vars>>

InitAim ==
    /\ worms = [w \in Worms |-> Worm]
    /\ tombstones = <<>>
    /\ level = 1
    /\ events = 0
    /\ since_death = [w \in Worms |-> -1]
    /\ damage_log = {}
    /\ tiles = Uniform(EMPTY)
    /\ digs = 0
    /\ last_dig = None
    /\ loot_log = {}
    /\ blast_log = NoBlasts
    /\ body = [facing_direction |-> 1, tool_target_angle |-> 0,
               tool_current_angle |-> 0, angle_locked |-> FALSE]

NextAim ==
    \E dt \in DtSet, horizontal_input \in {-1, 0, 1},
       keys \in [any_direction_key_pressed : BOOLEAN,
                 significant_input : BOOLEAN, turn : {-1, 0, 1}] :
        AimUpdate(dt, horizontal_input, keys)

SpecAim == InitAim /\ [][NextAim]_vars

(***************************************************************************)
(* A thrown charge in the terrain (ThrownDynamite.update with its          *)
(* position, and the crater of the thrown-dynamites loop of Worm.update).  *)
(* body = [dynamite, craters, ticked, paused]: the charge with its         *)
(* position and velocity (pixels, pixels per unit of dt), the craters dug  *)
(* for it, the dt of the ticks since its creation added up (kept up to     *)
(* DYNAMITE_FUSE_TIME, as elapsed is) and Game.paused.  elapsed is         *)
(* time.time() - start_time, which every iteration of the main loop adds   *)
(* its dt to, whether the game is paused or not.                           *)
(***************************************************************************)
\* Terrain.get_tile at the pixel (x, y)
get_tile(t, x, y) ==
    LET tile_x == x \div TILE_SIZE
        tile_y == (y - UI_HEIGHT) \div TILE_SIZE
    IN  IF tile_x \in Columns /\ tile_y \in Rows THEN t[tile_y][tile_x]
        ELSE IF tile_y >= GridHeight THEN EMPTY
        ELSE METAL

\* ThrownDynamite.update that goes on moving the charge when the fuse time
\* has passed
thrown_dynamite_update_drifting(d, dt, t) ==
    LET new_x == d.x + d.vel_x * dt
        new_y == d.y + d.vel_y * dt
        solid == get_tile(t, new_x, new_y) # EMPTY
        u == dynamite_update(d, dt, solid)
    IN  [dynamite |->
             IF solid
             THEN [u.dynamite EXCEPT !.vel_x = 0, !.vel_y = 0]
             ELSE [u.dynamite EXCEPT !.x = new_x, !.y = new_y,
                                     !.vel_y = @ + GRAVITY * dt],
         exploded |-> u.exploded]

\* ThrownDynamite.update that moves the charge into solid terrain
thrown_dynamite_update_sinking(d, dt, t) ==
    LET elapsed == Min(DYNAMITE_FUSE_TIME * TimeScale, d.elapsed + dt)
        moving == ~d.has_exploded
                      /\ elapsed < DYNAMITE_FUSE_TIME * TimeScale
        new_x == d.x + d.vel_x * dt
        new_y == d.y + d.vel_y * dt
        solid == moving /\ get_tile(t, new_x, new_y) # EMPTY
        u == dynamite_update(d, dt, solid)
    IN  [dynamite |->
             IF ~moving THEN u.dynamite
             ELSE [u.dynamite EXCEPT !.x = new_x, !.y = new_y,
                                     !.vel_y = @ + GRAVITY * dt],
         exploded |-> u.exploded]

\* ThrownDynamite.update(dt, terrain) on the grid t
thrown_dynamite_update(d, dt, t) ==
    LET elapsed == Min(DYNAMITE_FUSE_TIME * TimeScale, d.elapsed + dt)
        moving == ~d.has_exploded
                      /\ elapsed < DYNAMITE_FUSE_TIME * TimeScale
        new_x == d.x + d.vel_x * dt
        new_y == d.y + d.vel_y * dt
        solid == moving /\ get_tile(t, new_x, new_y) # EMPTY
        u == dynamite_update(d, dt, solid)
    IN  [dynamite |->
             IF ~moving THEN u.dynamite
             ELSE IF solid
             THEN [u.dynamite EXCEPT !.vel_x = 0, !.vel_y = 0]
             ELSE [u.dynamite EXCEPT !.x = new_x, !.y = new_y,
                                     !.vel_y = @ + GRAVITY * dt],
         exploded |-> u.exploded]

\* an iteration of the main loop while the game runs: Worm.update's loop
\* over the thrown charges, for the one charge
ChargeTick(dt) ==
    /\ ~body.paused
    /\ \E u \in {thrown_dynamite_update(body.dynamite, dt, tiles)} :
           /\ tiles' = IF u.exploded
                       THEN dig(tiles, u.dynamite.x, u.dynamite.y,
                                DYNAMITE_RADIUS, "dynamite", 1)
                       ELSE tiles
           /\ body' = [body EXCEPT
                          !.dynamite = u.dynamite,
                          !.craters = IF u.exploded THEN Min(2, @ + 1) ELSE @,
                          !.ticked = Min(DYNAMITE_FUSE_TIME * TimeScale,
                                         @ + dt)]
    /\ UNCHANGED <<game_vars, log_vars, digs, last_dig>>

\* an iteration of the main loop while the game is paused: Game.update
\* returns before it updates anything, the clock goes on
PausedTick(dt) ==
    /\ body.paused
    /\ body' = [body EXCEPT !.dynamite.elapsed =
                   Min(DYNAMITE_FUSE_TIME * TimeScale, @ + dt)]
    /\ UNCHANGED <<game_vars, log_vars, terrain_vars>>

\* Game.handle_event, KEYDOWN of the escape key
EscapeKey ==
    /\ body' = [body EXCEPT !.paused = ~@]
    /\ UNCHANGED <<game_vars, log_vars, terrain_vars>>

\* velocities of a throw with power 0 (speed 100) towards (0, 1),
\* (0.6, 0.8), (-0.6, 0.8), (0.28, 0.96) and (0, -1), with the upward bias
\* of 50 on vel_y
ThrowVelocities == {<<0, 50>>, <<60, 30>>, <<-60, 30>>, <<28, 46>>,
                    <<0, -150>>}

\* the empty cells a charge is thrown from; the grids have Empty pockets
\* in their lower rows
ThrowCells(t) ==
    {cell \in Columns \X Rows :
        /\ t[cell[2]][cell[1]] = EMPTY
        /\ cell[1] \in {1, GridWidth - 3}
        /\ cell[2] \in {0, GridHeight - 1, GridHeight - 2}}

InitCharge ==
    /\ worms = [w \in Worms |-> Worm]
    /\ tombstones = <<>>
    /\ level = 1
    /\ events = 0
    /\ since_death = [w \in Worms |-> -1]
    /\ damage_log = {}
    /\ tiles \in {Layered(1), Layered(2)}
    /\ digs = 0
    /\ last_dig = None
    /\ loot_log = {}
    /\ blast_log = NoBlasts
    /\ \E cell \in ThrowCells(tiles), vel \in ThrowVelocities :
           body = [dynamite |->
                       [elapsed |-> 0, has_exploded |-> FALSE,
                        hit_terrain |-> FALSE, signals |-> 0,
                        x |-> TILE_SIZE * cell[1] + TILE_SIZE \div 2,
                        y |-> UI_HEIGHT + TILE_SIZE * cell[2]
                                  + TILE_SIZE \div 2,
                        vel_x |-> vel[1], vel_y |-> vel[2]],
                   craters |-> 0, ticked |-> 0, paused |-> FALSE]

NextCharge ==
    \/ \E dt \in DtSet : ChargeTick(dt)
    \/ \E dt \in DtSet : PausedTick(dt)
    \/ EscapeKey

SpecCharge == InitCharge /\ [][NextCharge]_vars

(***************************************************************************)
(* The first worm under its player's control (Worm.handle_input: jump;     *)
(* Worm.update: horizontal input, gravity, physics, wrap) through its      *)
(* deaths and respawns (Game.update: death handling with relocation,       *)
(* Game._handle_death_and_respawn).  body is the movement state of         *)
(* SpecWrap with three more fields: body.jumps counts the jump triggers    *)
(* that took effect, body.respawn_timer and body.spawn_protection are the  *)
(* worm's two timers in frames of 1/FPS s (the tick lengths of the         *)
(* movement are frames).                                                   *)
(***************************************************************************)
JUMP_VELOCITY == 0 - 250

\* the jump of Worm.handle_input that needs can_jump only
jump_airborne(b, worm) ==
    IF b.can_jump /\ ~worm.is_respawning
    THEN [b EXCEPT !.vel_y = JUMP_VELOCITY * VelUnits,
                   !.on_ground = FALSE,
                   !.can_jump = FALSE,
                   !.jumps = @ + 1]
    ELSE b

\* Worm.handle_input, KEYDOWN of the jump key (space, right control)
jump(b, worm) ==
    IF b.on_ground /\ b.can_jump /\ ~worm.is_respawning
    THEN [b EXCEPT !.vel_y = JUMP_VELOCITY * VelUnits,
                   !.on_ground = FALSE,
                   !.can_jump = FALSE,
                   !.jumps = @ + 1]
    ELSE b

\* the vertical movement of Worm._apply_physics_movement meets the ground
\* while the worm moves downwards ("Hit ground while falling")
hit_ground(b, dt) ==
    LET capped == b.vel_y * dt > max_position_change * PosUnits
        new_y == IF capped THEN b.y + max_position_change * PosUnits
                 ELSE b.y + b.vel_y * dt
    IN  check_collision(b, new_y) /\ b.vel_y > 0

\* the movement of Worm.update for a worm that may be waiting to respawn:
\* the keys held count and the physics runs for a worm that is not
control_movement(b, dt, horizontal_input, is_respawning) ==
    LET steered == horizontal_movement(b, IF is_respawning THEN 0
                                          ELSE horizontal_input)
        pulled == apply_gravity(steered, dt)
        moved == IF is_respawning THEN [pulled EXCEPT !.damage = 0]
                 ELSE [apply_physics_movement(pulled, dt) EXCEPT
                          !.can_jump = @ \/ hit_ground(pulled, dt)]
    IN  top_boundary(screen_wrap([moved EXCEPT !.fell_to = moved.y]))

\* the relocation of Worm.die(killer_worm, new_x, new_y)
relocate(b, new_y) ==
    [b EXCEPT !.y = new_y, !.left_y = new_y, !.fell_to = new_y,
              !.vel_x = 0, !.vel_y = 0,
              !.on_ground = FALSE, !.can_jump = FALSE,
              !.respawn_timer = RESPAWN_TIME * FPS]

\* Game._handle_death_and_respawn for the first worm, dt frames
control_timers(worm, b, dt) ==
    IF worm.is_respawning
    THEN IF b.respawn_timer > 0
         THEN IF b.respawn_timer - dt <= 0
              THEN [worm |-> respawn(worm),
                    body |-> [b EXCEPT !.respawn_timer = 0,
                                       !.spawn_protection =
                                           SPAWN_PROTECTION_TIME * FPS]]
              ELSE [worm |-> worm,
                    body |-> [b EXCEPT !.respawn_timer = @ - dt]]
         ELSE [worm |-> worm, body |-> b]
    ELSE IF b.spawn_protection > 0
    THEN [worm |-> IF b.spawn_protection - dt <= 0
                   THEN [worm EXCEPT !.spawn_protection = 0] ELSE worm,
          body |-> [b EXCEPT !.spawn_protection = @ - dt]]
    ELSE [worm |-> worm, body |-> b]

\* Game.update for the first worm: its update (movement), the handling of
\* a fall death with the relocation to new_y, the timers
ControlUpdate(dt, horizontal_input, new_y) ==
    /\ body.wraps < MaxWraps
    /\ worms[1].deaths < MaxWraps
    /\ \E b \in {control_movement(body, dt, horizontal_input,
                                  worms[1].is_respawning)} :
       \E damage_result \in {take_damage(worms[1], b.damage)} :
       \E g \in {[worms |-> IF b.damage > 0
                            THEN [worms EXCEPT ![1] = damage_result.worm]
                            ELSE worms,
                  tombstones |-> tombstones,
                  calls |-> IF b.damage > 0
                            THEN {damage_call(worms[1], damage_result)}
                            ELSE {}]} :
       \E dies \in {b.damage > 0 /\ damage_result.needs_death_handling} :
       \E g1 \in {IF dies THEN handle_worm_death(g, 1, NoWorm) ELSE g} :
       \E t \in {control_timers(g1.worms[1],
                                IF dies THEN relocate(b, new_y) ELSE b,
                                dt)} :
           /\ body' = t.body
           /\ worms' = [g1.worms EXCEPT ![1] = t.worm]
           /\ tombstones' = g1.tombstones
           /\ damage_log' = g1.calls
           /\ UNCHANGED <<level, events, since_death, terrain_vars,
                          log_vars>>

\* Worm.handle_input of the first worm, KEYDOWN of its jump key
JumpKey ==
    /\ events < MaxEvents
    /\ body' = jump(body, worms[1])
    /\ events' = events + 1
    /\ UNCHANGED <<worms, tombstones, level, since_death, damage_log,
                   terrain_vars, log_vars>>

\* the frame lengths of a tick: a quarter of a second, or whole seconds
ControlDts == {FPS \div 4} \cup {FPS * dt : dt \in DtSet}

\* the heights, in pixels, of the safe spawn locations: in the top band,
\* and 27 pixels above the ground of WrapFloors, from where a quarter of a
\* second of free fall ends within ground_check_distance of the ground
ControlSpawns == {wrap_y_position, 1023}

InitControl ==
    /\ worms = [w \in Worms |-> Worm]
    /\ tombstones = <<>>
    /\ level = 1
    /\ events = MaxEvents - 2
    /\ since_death = [w \in Worms |-> -1]
    /\ damage_log = {}
    /\ tiles = Uniform(EMPTY)
    /\ digs = 0
    /\ last_dig = None
    /\ loot_log = {}
    /\ blast_log = NoBlasts
    /\ \E start \in ControlSpawns, floor \in WrapFloors :
           body = [y |-> start * PosUnits, vel_y |-> 0, vel_x |-> 0,
                   on_ground |-> FALSE, can_jump |-> TRUE,
                   left_y |-> start * PosUnits, floor_y |-> floor,
                   damage |-> 0, fell_to |-> start * PosUnits, wraps |-> 0,
                   jumps |-> 0, respawn_timer |-> 0, spawn_protection |-> 0]

NextControl ==
    \/ \E dt \in ControlDts, horizontal_input \in {0, 1},
          new_y \in ControlSpawns :
           ControlUpdate(dt, horizontal_input, new_y * PosUnits)
    \/ JumpKey
    \/ KeyEvent
    \/ MouseEvent

SpecControl == InitControl /\ [][NextControl]_vars

(***************************************************************************)
(* The items of the terrain (Terrain.items) and their collection by the    *)
(* first worm in its update: Worm._check_item_collection collects what the *)
(* worm touches, Terrain.check_for_items, called at the end of             *)
(* Worm.update, what lies within WORM_RADIUS + 5 of it.                    *)
(* Terrain._place_collectible_items keeps the items 10 cells apart, so a   *)
(* grid of this size holds one: body.item is its cell and its type,        *)
(* body.present whether it is still in Terrain.items, body.x and body.y    *)
(* where the worm was in its last update.                                  *)
(***************************************************************************)
GAS_BOTTLE == 1
DYNAMITE == 2

\* the test of Worm._check_item_collection for the item and a worm at (x, y)
item_touched(item, x, y) ==
    LET tile_x == x \div TILE_SIZE
        tile_y == (y - UI_HEIGHT) \div TILE_SIZE
        item_world_x == item.tx * TILE_SIZE + TILE_SIZE \div 2
        item_world_y == item.ty * TILE_SIZE + TILE_SIZE \div 2 + UI_HEIGHT
        reach == WORM_RADIUS + TILE_SIZE \div 2
    IN  /\ item.tx - tile_x \in -1..1
        /\ item.ty - tile_y \in -1..1
        /\ item.tx \in Columns /\ item.ty \in Rows
        /\ (x - item_world_x) * (x - item_world_x)
               + (y - item_world_y) * (y - item_world_y) < reach * reach

\* the test of Terrain.check_for_items(x, y, radius) for the item
item_near(item, x, y, radius) ==
    LET tile_x == x \div TILE_SIZE
        tile_y == (y - UI_HEIGHT) \div TILE_SIZE
        tile_radius == Max(1, radius \div TILE_SIZE)
        dx == item.tx - tile_x
        dy == item.ty - tile_y
    IN  /\ dx \in (0 - tile_radius)..tile_radius
        /\ dy \in (0 - tile_radius)..tile_radius
        /\ dx * dx + dy * dy <= tile_radius * tile_radius

\* what the update of a worm at (x, y) finds of the item, as worm_update
\* takes it
found_item(b, x, y) ==
    IF ~b.present THEN None
    ELSE IF item_touched(b.item, x, y)
    THEN IF b.item.type = GAS_BOTTLE THEN "touched_gas_bottle"
         ELSE "touched_dynamite"
    ELSE IF item_near(b.item, x, y, WORM_RADIUS + 5)
    THEN IF b.item.type = GAS_BOTTLE THEN "near_gas_bottle"
         ELSE "near_dynamite"
    ELSE None

\* Worm.update of the first worm, which its movement has taken to (x, y):
\* the two collections; an item found is deleted from Terrain.items
ItemUpdate(x, y) ==
    /\ \E found \in {found_item(body, x, y)} :
           /\ worms' = [worms EXCEPT ![1] =
                  check_for_items(check_item_collection(@, found), found)]
           /\ body' = [body EXCEPT !.x = x, !.y = y,
                                   !.present = @ /\ found = None]
    /\ UNCHANGED <<tombstones, level, events, since_death, damage_log,
                   terrain_vars, log_vars>>

\* where the worm's reference point is in an update: a point in each cell
ItemPlaces ==
    {<<TILE_SIZE * tx + 3, UI_HEIGHT + TILE_SIZE * ty + 5>> :
        tx \in Columns, ty \in Rows}

\* the cells of the underground area in which the item is placed
ItemCells ==
    {cell \in Columns \X Rows :
        /\ cell[2] >= (GridHeight * 4) \div 10
        /\ cell[1] \in {2, GridWidth - 1}}

InitItems ==
    /\ \E gas \in {0, MAX_GAS - TORCH_GAS_COST, MAX_GAS} :
           worms = [w \in Worms |-> [Worm EXCEPT !.gas = gas]]
    /\ tombstones = <<>>
    /\ level = 1
    /\ events = 0
    /\ since_death = [w \in Worms |-> -1]
    /\ damage_log = {}
    /\ tiles = Uniform(EMPTY)
    /\ digs = 0
    /\ last_dig = None
    /\ loot_log = {}
    /\ blast_log = NoBlasts
    /\ \E cell \in ItemCells, type \in {GAS_BOTTLE, DYNAMITE} :
           body = [x |-> 3, y |-> UI_HEIGHT + 5,
                   item |-> [tx |-> cell[1], ty |-> cell[2], type |-> type],
                   present |-> TRUE]

NextItems == \E place \in ItemPlaces : ItemUpdate(place[1], place[2])

SpecItems == InitItems /\ [][NextItems]_vars

(***************************************************************************)
(* The game under fair ticking and without input events: Game.update       *)
(* keeps being called (main.py calls it once per frame with dt > 0)        *)
(***************************************************************************)
NextTick == GameUpdate

FairSpec == Init /\ [][NextTick]_vars /\ WF_vars(GameUpdate)

(***************************************************************************)
(* Lifecycle state of a worm                                               *)
(***************************************************************************)
Lifecycle(worm) ==
    IF worm.is_respawning THEN "Dying"
    ELSE IF worm.spawn_protection > 0 THEN "Protected"
    ELSE "Alive"

(***************************************************************************)
(* C1: from one state of the game to the next, a worm's lifecycle state    *)
(* stays what it was or changes along Alive -> Dying (with hp 0),          *)
(* Dying -> Protected or Protected -> Alive (protection run out); a tick   *)
(* long enough to hold a death and its respawn takes Alive to Protected    *)
(* through Dying, with one more death counted.                             *)
(***************************************************************************)
C1_LifecycleStep(w) ==
    LET before == Lifecycle(worms[w])
        after == Lifecycle(worms'[w])
    IN  \/ after = before
        \/ before = "Alive" /\ after = "Dying" /\ worms'[w].hp = 0
        \/ before = "Dying" /\ after = "Protected"
        \/ before = "Protected" /\ after = "Alive"
              /\ worms'[w].spawn_protection <= 0
        \/ before = "Alive" /\ after = "Protected"
              /\ worms'[w].deaths = worms[w].deaths + 1

C1_LifecycleTransitions == [][\A w \in Worms : C1_LifecycleStep(w)]_vars

(***************************************************************************)
(* C2: every take_damage call made on a worm that is Dying or has          *)
(* spawn_protection > 0 returns False (no death to handle) and leaves the  *)
(* worm, health, lifecycle and counters, exactly as it was.                *)
(***************************************************************************)
C2_ProtectedDamageIgnored ==
    \A call \in damage_log :
        call.blocked => ~call.needs_death_handling /\ call.unchanged

C2_Witness ==
    /\ \E call \in damage_log : call.blocked
    /\ \E w \in Worms : worms[w].spawn_protection > 0

(***************************************************************************)
(* C3: the health of every worm is within [0, max_hp] in every state.      *)
(***************************************************************************)
C3_HealthInRange ==
    \A w \in Worms : worms[w].hp >= 0 /\ worms[w].hp <= max_hp

C3_Witness ==
    \E w \in Worms :
        /\ worms[w].hp = 0
        /\ worms[w].fall_deaths > 0
        /\ \E call \in damage_log : ~call.blocked /\ call.needs_death_handling

(***************************************************************************)
(* C4: after every operation of the game, every worm with health 0 is      *)
(* Dying with its respawn timer running; none is left Alive with health 0. *)
(***************************************************************************)
C4_DeadAreDying ==
    \A w \in Worms :
        worms[w].hp <= 0 =>
            worms[w].is_respawning /\ worms[w].respawn_timer > 0

(***************************************************************************)
(* C5: the step in which a worm stops being Dying leaves it with           *)
(* hp = max_hp, gas, dynamite count and laser battery at their starting    *)
(* amounts and spawn_protection = SPAWN_PROTECTION_TIME.                   *)
(***************************************************************************)
C5_Respawned(w) ==
    /\ worms'[w].hp = max_hp
    /\ worms'[w].gas = STARTING_GAS
    /\ worms'[w].dynamite_count = DYNAMITE_COUNT_START
    /\ worms'[w].laser_battery = LASER_BATTERY_FULL * TimeScale
    /\ worms'[w].spawn_protection = SPAWN_PROTECTION_TIME * TimeScale

C5_RespawnResetsPools ==
    [][\A w \in Worms :
          worms[w].is_respawning /\ ~worms'[w].is_respawning
              => C5_Respawned(w)]_vars

(***************************************************************************)
(* C6: after every tick, a worm whose death is being timed is still Dying  *)
(* if the dt accumulated since its death is below RESPAWN_TIME, and has    *)
(* just become Protected if it has reached RESPAWN_TIME.                   *)
(***************************************************************************)
C6_RespawnOnTime ==
    \A w \in Worms :
        since_death[w] >= 0 =>
            IF since_death[w] < RESPAWN_TIME * TimeScale
            THEN worms[w].is_respawning
            ELSE /\ ~worms[w].is_respawning
                 /\ worms[w].spawn_protection
                        = SPAWN_PROTECTION_TIME * TimeScale

Diggable(tool_type) ==
    IF tool_type = "drill" THEN {DIRT, ROCK}
    ELSE IF tool_type = "dynamite" THEN {DIRT, ROCK, METAL}
    ELSE IF tool_type = "laser" THEN {ROCK, METAL}
    ELSE {DIRT, ROCK}

C8_Diggability ==
    [][digs' = digs + 1 =>
          \A ty \in Rows, tx \in Columns :
              tiles[ty][tx] \notin Diggable(last_dig'.tool_type)
                  => tiles'[ty][tx] = tiles[ty][tx]]_vars

last_tile_x == last_dig.x \div TILE_SIZE
last_tile_y == (last_dig.y - UI_HEIGHT) \div TILE_SIZE

C8_Witness ==
    /\ digs > 0
    /\ last_dig.tool_type = "laser"
    /\ last_tile_x \in Columns /\ last_tile_y \in Rows
    /\ tiles[last_tile_y][last_tile_x] = DIRT
    /\ \E ty \in Rows, tx \in Columns : tiles[ty][tx] = EMPTY

(***************************************************************************)
(* C9: one drill dig on an all-Dirt grid at a cell (cx, cy) whose shaft    *)
(* fits in the grid leaves Empty exactly a rectangle drill_width_tiles     *)
(* wide and drill_depth_tiles deep whose top row is cy, and Dirt           *)
(* everywhere else.                                                        *)
(***************************************************************************)
C9_Rectangle(x0, cy) ==
    [ty \in Rows |-> [tx \in Columns |->
        IF /\ tx >= x0 /\ tx < x0 + drill_width_tiles
           /\ ty >= cy /\ ty < cy + drill_depth_tiles
        THEN EMPTY ELSE DIRT]]

C9_DrillRectangle ==
    [][(/\ digs' = digs + 1
        /\ last_dig'.tool_type = "drill"
        /\ tiles = Uniform(DIRT))
       => LET cx == last_dig'.x \div TILE_SIZE
              cy == (last_dig'.y - UI_HEIGHT) \div TILE_SIZE
              interior ==
                  /\ cx - drill_width_tiles >= 0
                  /\ cx + drill_width_tiles <= GridWidth
                  /\ cy >= 0 /\ cy + drill_depth_tiles <= GridHeight
          IN  interior =>
                  \E x0 \in (cx - drill_width_tiles)..cx :
                      tiles' = C9_Rectangle(x0, cy)]_vars

(***************************************************************************)
(* C10: in the step in which a worm dies, the gas of its tombstone plus    *)
(* the gas it keeps is the gas it had, and the same for dynamite.          *)
(***************************************************************************)
C10_Conserved(v) ==
    LET stone == tombstones'[Len(tombstones')]
    IN  /\ stone.deceased_worm_name = v
        /\ stone.gas_amount + worms'[v].gas = worms[v].gas
        /\ stone.dynamite_amount + worms'[v].dynamite_count
               = worms[v].dynamite_count

C10_TombstoneConservation ==
    [][\A v \in Worms :
          worms'[v].deaths = worms[v].deaths + 1 => C10_Conserved(v)]_vars

(***************************************************************************)
(* C11: a step appends exactly one tombstone for every worm that goes from *)
(* Alive or Protected to Dying in it and leaves the earlier tombstones as  *)
(* they are; only an unprotected worm dies, and the tombstone appended     *)
(* last is its own.  Damage on a Dying or protected worm appends none.     *)
(***************************************************************************)
C11_NewlyDying ==
    {w \in Worms : /\ Lifecycle(worms[w]) # "Dying"
                   /\ Lifecycle(worms'[w]) = "Dying"}

C11_OneTombstonePerDeath ==
    [][/\ Len(tombstones') = Len(tombstones) + Cardinality(C11_NewlyDying)
       /\ SubSeq(tombstones', 1, Len(tombstones)) = tombstones
       /\ \A w \in C11_NewlyDying :
              /\ Lifecycle(worms[w]) = "Alive"
              /\ tombstones'[Len(tombstones')].deceased_worm_name = w]_vars

C11_Witness ==
    /\ Len(tombstones) = 1
    /\ \E c \in damage_log : c.blocked /\ c.unchanged
    /\ \E w \in Worms : Lifecycle(worms[w]) = "Protected"

(***************************************************************************)
(* C12: a loot call that succeeds leaves the looter as it was except for   *)
(* its gas, raised by the tombstone's gas and clamped at MAX_GAS, and its  *)
(* dynamite count, raised by the tombstone's dynamite.                     *)
(***************************************************************************)
C12_LootTransfers ==
    [][\A call \in loot_log' :
          call.looted =>
              worms'[call.looter] =
                  [worms[call.looter] EXCEPT
                      !.gas = Min(MAX_GAS, @ + tombstones[1].gas_amount),
                      !.dynamite_count = @ + tombstones[1].dynamite_amount]]_vars

C12_Witness ==
    /\ \E call \in loot_log :
           /\ call.looted
           /\ worms[call.looter].gas = MAX_GAS
           /\ \E o \in Worms :
                  /\ worms[o].gas + tombstones[1].gas_amount > MAX_GAS
                  /\ worms[o].gas < MAX_GAS
    /\ tombstones[1].dynamite_amount > 0

(***************************************************************************)
(* C13: a loot call on a looted tombstone returns False and changes        *)
(* neither the tombstone nor the caller, so that once a tombstone is       *)
(* looted no loot call changes any worm's pools.                           *)
(***************************************************************************)
C13_LootOnce ==
    [][/\ \A call \in loot_log' : call.was_looted => ~call.looted
       /\ tombstones[1].is_looted => UNCHANGED <<worms, tombstones>>]_vars

C13_Witness ==
    /\ tombstones[1].is_looted
    /\ \E call \in loot_log : call.was_looted /\ ~call.looted
    /\ \E w, o \in Worms : worms[w].gas # worms[o].gas

(***************************************************************************)
(* C14: after every tick, each loot call of the tick that succeeded was    *)
(* made by a worm that was not Dying (the worms near a tombstone are an    *)
(* input of the tick).                                                     *)
(***************************************************************************)
C14_LooterIsLiving ==
    \A call \in loot_log : call.looted => ~call.was_respawning

(***************************************************************************)
(* C15: after every tick no tombstone of the game is looted, and no        *)
(* tombstone was looted by two worms in the tick.                          *)
(***************************************************************************)
C15_LootedAreRemoved ==
    /\ \A k \in 1..Len(tombstones) : ~tombstones[k].is_looted
    /\ \A a, b \in loot_log :
           a.looted /\ b.looted /\ a.stone = b.stone => a.looter = b.looter

C15_Witness ==
    /\ tombstones = <<>>
    /\ \E call \in loot_log :
           /\ call.looted /\ ~call.was_respawning
           /\ \E w \in Worms : w # call.looter /\ worms[w].deaths > 0

(***************************************************************************)
(* C16: a thrown charge signals no explosion in a tick in which the time   *)
(* elapsed since its creation is below DYNAMITE_FUSE_TIME, signals it in   *)
(* the first tick in which the elapsed time is at least DYNAMITE_FUSE_TIME *)
(* whether or not it has hit terrain, and signals it at most once: a       *)
(* charge whose fuse time is over has signalled exactly once.  (A level    *)
(* transition discards the charges with the worms that own them.)          *)
(***************************************************************************)
C16_Charges(w) ==
    DOMAIN worms[w].thrown_dynamites \cap DOMAIN worms'[w].thrown_dynamites

C16_Signalled(before, after) == after.signals > before.signals

C16_FuseSignal ==
    [][\A w \in Worms : \A k \in C16_Charges(w) :
          LET before == worms[w].thrown_dynamites[k]
              after == worms'[w].thrown_dynamites[k]
              fuse == DYNAMITE_FUSE_TIME * TimeScale
          IN  /\ after.elapsed < fuse => ~C16_Signalled(before, after)
              /\ before.elapsed < fuse /\ after.elapsed >= fuse
                     => C16_Signalled(before, after)
              /\ before.elapsed >= fuse => ~C16_Signalled(before, after)
              /\ after.signals = IF after.elapsed >= fuse THEN 1 ELSE 0
              /\ after.has_exploded <=> after.signals = 1]_vars

C16_Witness ==
    \E w \in Worms : \E k \in DOMAIN worms[w].thrown_dynamites :
        /\ worms[w].thrown_dynamites[k].hit_terrain
        /\ worms[w].thrown_dynamites[k].has_exploded
        /\ worms[w].thrown_dynamites[k].signals = 1

(***************************************************************************)
(* C17: no worm's thrown_dynamites holds a charge that has exploded: an    *)
(* exploded charge is removed by the end of the tick in which it exploded. *)
(***************************************************************************)
C17_ExplodedAreRemoved ==
    \A w \in Worms : \A k \in DOMAIN worms[w].thrown_dynamites :
        ~worms[w].thrown_dynamites[k].has_exploded

(***************************************************************************)
(* C18: in the tick in which a charge's fuse expires the game instantiates *)
(* an explosion for it whose source is the thrower, and this explosion     *)
(* damages no worm more than once (C19 tells which worms it damages).      *)
(***************************************************************************)
C18_ExplosionOnExpiry ==
    [][\A w \in Worms : \A k \in C16_Charges(w) :
          C16_Signalled(worms[w].thrown_dynamites[k],
                        worms'[w].thrown_dynamites[k])
              => \E explosion \in blast_log' :
                     /\ explosion.source_worm = w
                     /\ \A v \in Worms :
                            Cardinality({j \in DOMAIN explosion.damaged_worms :
                                explosion.damaged_worms[j].worm = v}) <= 1]_vars

(***************************************************************************)
(* C19: Explosion.apply_damage deals to each worm at distance d of the     *)
(* centre max(EXPLOSION_MIN_DAMAGE, base_damage - floor(d)) if d <= radius *)
(* and nothing if d > radius, each worm at most once per call: the list    *)
(* it returns has one entry with that amount for every worm in the radius  *)
(* and none for the others, and a worm's hp goes down by that amount (not  *)
(* below 0) unless it is waiting to respawn or protected.                  *)
(***************************************************************************)
C19_Dealt(explosion, d2) ==
    IF d2 <= explosion.radius * explosion.radius
    THEN Max(EXPLOSION_MIN_DAMAGE, explosion.base_damage - int_sqrt(d2))
    ELSE 0

C19_Entries(blast, v) ==
    {j \in DOMAIN blast.damaged_worms : blast.damaged_worms[j].worm = v}

C19_BlastDamage ==
    [][\A blast \in blast_log' : \A v \in Worms :
          LET dealt == C19_Dealt(blast.explosion, blast.distance2[v])
          IN  /\ Cardinality(C19_Entries(blast, v))
                     = IF dealt > 0 THEN 1 ELSE 0
              /\ \A j \in C19_Entries(blast, v) :
                     blast.damaged_worms[j].damage = dealt
              /\ worms'[v] =
                     IF Vulnerable(v)
                     THEN [worms[v] EXCEPT !.hp = Max(0, @ - dealt)]
                     ELSE worms[v]]_vars

C19_Witness ==
    \E blast \in blast_log : \E v, o \in Worms :
        /\ blast.explosion = dynamite_explosion(blast.explosion.source_worm)
        /\ blast.distance2[v] = 50 * 50
        /\ \E j \in C19_Entries(blast, v) : blast.damaged_worms[j].damage = 20
        /\ worms[v].hp = max_hp - 20
        /\ blast.distance2[o] = 200 * 200
        /\ C19_Entries(blast, o) = {}
        /\ worms[o].hp = max_hp

(***************************************************************************)
(* C20: the fall damage of an update is computed from the total vertical   *)
(* distance d the worm has fallen since it left the ground: an update in   *)
(* which the airborne worm hits the ground with a downward velocity above  *)
(* FALL_DAMAGE_VELOCITY_THRESHOLD and d >= FALL_DAMAGE_START_HEIGHT deals  *)
(* max(1, (d - FALL_DAMAGE_START_HEIGHT) * FALL_DAMAGE_MULTIPLIER), any    *)
(* other update deals none, whatever the lengths of the ticks.             *)
(***************************************************************************)
C20_Lands == ~body.on_ground /\ body'.vel_y = 0 /\ body.vel_y >= 0
                 /\ body'.y = body.y

C20_Distance == body'.y - body.left_y

C20_Damage ==
    Max(1, ((C20_Distance - FALL_DAMAGE_START_HEIGHT * PosUnits)
                * FALL_DAMAGE_MULTIPLIER) \div (10 * PosUnits))

\* the velocity before the update is a lower bound of the downward
\* velocity before the collision
C20_FallDamage ==
    [][/\ body'.damage > 0
              => /\ C20_Lands
                 /\ C20_Distance >= FALL_DAMAGE_START_HEIGHT * PosUnits
                 /\ body'.damage = C20_Damage
       /\ /\ C20_Lands
          /\ body.vel_y > FALL_DAMAGE_VELOCITY_THRESHOLD * VelUnits
          /\ C20_Distance >= FALL_DAMAGE_START_HEIGHT * PosUnits
              => body'.damage = C20_Damage]_vars

(***************************************************************************)
(* C21: a worm that the physics of a tick moved below the bottom of the    *)
(* world (y > SCREEN_HEIGHT + WORM_RADIUS) ends that tick in the top band  *)
(* (y = UI_HEIGHT + 50) with horizontal velocity 0, vertical velocity 50,  *)
(* in the air, with the health and lifecycle it had; a worm is wrapped in  *)
(* no other tick, never stays below the bottom, and the tick after a wrap  *)
(* does not wrap again.                                                    *)
(***************************************************************************)
C21_Bottom == (SCREEN_HEIGHT + WORM_RADIUS) * PosUnits

C21_Wrapped == body'.wraps = body.wraps + 1

C21_JustWrapped ==
    /\ body.wraps > 0
    /\ body.y = wrap_y_position * PosUnits
    /\ body.vel_y = 50 * VelUnits
    /\ body.fell_to > C21_Bottom

C21_ScreenWrap ==
    [][/\ C21_Wrapped <=> body'.fell_to > C21_Bottom
       /\ body'.wraps \in {body.wraps, body.wraps + 1}
       /\ body'.y <= C21_Bottom
       /\ C21_Wrapped =>
              /\ body'.y = wrap_y_position * PosUnits
              /\ body'.vel_x = 0
              /\ body'.vel_y = 50 * VelUnits
              /\ ~body'.on_ground
              /\ worms' = worms
              /\ tombstones' = tombstones
       /\ C21_JustWrapped => ~C21_Wrapped]_vars

\* a worm wrapped once moves sideways again while it falls from the band
C21_Witness ==
    /\ body.wraps = 1
    /\ body.y > wrap_y_position * PosUnits
    /\ body.vel_x > 0
    /\ worms[1].hp = max_hp

(***************************************************************************)
(* C22: in every step, a worm that lacks the resource of its selected tool *)
(* (torch: gas < TORCH_GAS_COST, laser: battery < 10, dynamite: no charge  *)
(* left) gets no dig request and no thrown charge, and, unless it dies or  *)
(* the level changes in the step, none of its pools goes down.             *)
(***************************************************************************)
C22_Sufficient(worm) ==
    CASE current_tool(worm) = "torch" -> worm.gas >= TORCH_GAS_COST
      [] current_tool(worm) = "laser" ->
             worm.laser_battery >= LASER_SHOT_COST * TimeScale
      [] current_tool(worm) = "dynamite" -> worm.dynamite_count > 0
      [] OTHER -> TRUE

C22_Requested(w) ==
    \/ worms[w].dig_request = None /\ worms'[w].dig_request # None
    \/ Len(worms'[w].thrown_dynamites) > Len(worms[w].thrown_dynamites)

\* the worm neither dies nor is replaced at a level transition in the step
C22_Lives(w) ==
    /\ worms'[w].is_respawning = worms[w].is_respawning
    /\ worms'[w].hp = worms[w].hp
    /\ level' = level

C22_PoolsKept(w) ==
    /\ worms'[w].gas >= worms[w].gas
    /\ worms'[w].dynamite_count >= worms[w].dynamite_count
    /\ worms'[w].laser_battery >= worms[w].laser_battery

C22_InsufficientDropped ==
    [][\A w \in Worms :
           ~C22_Sufficient(worms[w]) =>
               /\ ~C22_Requested(w)
               /\ C22_Lives(w) => C22_PoolsKept(w)]_vars

(***************************************************************************)
(* C23: in every reachable state every worm has its gas in 0..MAX_GAS, its *)
(* laser battery in 0..100 percent and a charge count of 0 or more.        *)
(***************************************************************************)
C23_PoolsInRange ==
    \A w \in Worms :
        /\ worms[w].gas >= 0 /\ worms[w].gas <= MAX_GAS
        /\ worms[w].laser_battery >= 0
        /\ worms[w].laser_battery <= LASER_BATTERY_FULL * TimeScale
        /\ worms[w].dynamite_count >= 0

\* a worm that started one unit below MAX_GAS and five percent below a
\* full battery has met a gas bottle and recharged: both are at the limit
C23_Witness ==
    \E w \in Worms :
        /\ events = MaxEvents
        /\ worms[w].gas = MAX_GAS
        /\ worms[w].laser_battery = LASER_BATTERY_FULL * TimeScale
        /\ worms[w].dynamite_count = 0

(***************************************************************************)
(* C24: a damage step in which the victim dies adds 1 to the victim's      *)
(* deaths and 1 to exactly one other counter: the victim's fall_deaths     *)
(* when there is no source, the victim's self_deaths when the source is    *)
(* the victim, the source's kills otherwise; every other counter keeps its *)
(* value, and after every step the deaths of all worms add up to the       *)
(* kills, fall deaths and self deaths of all worms.                        *)
(***************************************************************************)
C24_Counters == {"deaths", "kills", "fall_deaths", "self_deaths"}

C24_Credited(v, attacker) ==
    {<<v, "deaths">>}
        \cup (IF attacker = NoWorm THEN {<<v, "fall_deaths">>}
              ELSE IF attacker = v THEN {<<v, "self_deaths">>}
              ELSE {<<attacker, "kills">>})

RECURSIVE C24_Sum(_, _, _)
C24_Sum(ws, counter, n) ==
    IF n = 0 THEN 0 ELSE ws[n][counter] + C24_Sum(ws, counter, n - 1)

C24_DeathCounters ==
    [][/\ \A v \in Worms, attacker \in {NoWorm} \cup Worms,
             damage \in FatalDamages :
              /\ DamageStep(v, attacker, damage)
              /\ worms'[v].is_respawning /\ ~worms[v].is_respawning
              => \A w \in Worms, counter \in C24_Counters :
                     worms'[w][counter] =
                         worms[w][counter]
                             + (IF <<w, counter>> \in C24_Credited(v, attacker)
                                THEN 1 ELSE 0)
       /\ C24_Sum(worms', "deaths", NumWorms) =
              C24_Sum(worms', "kills", NumWorms)
                  + C24_Sum(worms', "fall_deaths", NumWorms)
                  + C24_Sum(worms', "self_deaths", NumWorms)]_vars

\* the first worm has died twice in a level: once of its own charge, once
\* by the second worm
C24_Witness ==
    /\ worms[1].deaths = 2
    /\ worms[1].self_deaths = 1
    /\ worms[2].kills = 1

(***************************************************************************)
(* C25: the safe-spawn search returns after at most 20 attempts, and the   *)
(* point it returns is its default, after 20 rejected attempts, or a point *)
(* that is not in solid terrain and at least MIN_SPAWN_DISTANCE away from  *)
(* the head of the other worm.                                             *)
(***************************************************************************)
C25_SafeSpawn ==
    /\ body.attempts <= max_attempts
    /\ body.done =>
           \/ /\ body.fallback
              /\ body.attempts = max_attempts
              /\ body.x = 200 /\ body.y = UI_HEIGHT + 150
           \/ /\ ~body.fallback
              /\ ~is_solid(body, body.x, body.y)
              /\ ~too_close(body, body.x, body.y)

(***************************************************************************)
(* C26: a step that moves the game to the next level leaves every worm     *)
(* (the worm in the same slot of the list) with the gas, the charge count, *)
(* the laser battery and the health it had before the step.                *)
(***************************************************************************)
C26_LevelKeepsPools ==
    [][level' = level + 1 =>
           \A w \in Worms :
               /\ worms'[w].gas = worms[w].gas
               /\ worms'[w].dynamite_count = worms[w].dynamite_count
               /\ worms'[w].laser_battery = worms[w].laser_battery
               /\ worms'[w].hp = worms[w].hp]_vars

(***************************************************************************)
(* C27: within one Game.update tick, damage comes only after all terrain   *)
(* mutation: once a character's health has been reduced in the tick, no    *)
(* dig call (tool dig or detonation crater) changes a terrain cell later   *)
(* in the same tick.  The effects of the latest tick, in program order,    *)
(* hold no dig that changed a cell after a loss of health.                 *)
(***************************************************************************)
C27_DamageAfterDigs ==
    \A j \in DOMAIN body.effects : \A k \in DOMAIN body.effects :
        (j < k /\ body.effects[j].kind = "damage")
            => ~(body.effects[k].kind = "dig" /\ body.effects[k].changed)

(***************************************************************************)
(* C28: for each drill, laser or torch use of a tick, every other worm in  *)
(* plain Alive state whose reference point lies in the tool's damage       *)
(* footprint loses exactly the tool's fixed amount (drill 50, laser 10,    *)
(* torch 30, floored at health 0), once; the user of the tool loses no     *)
(* health from it and worms outside the footprint lose none.  Whatever     *)
(* state a tick without landing or explosion starts in and whichever worms *)
(* lie in whose footprint, when its _check_tool_damage has returned a worm *)
(* that was plain Alive has its health less the amounts of the other       *)
(* worms' tools whose footprint it was in, and every other worm has the    *)
(* health it had.                                                          *)
(***************************************************************************)
C28_Amount(tool) ==
    IF tool = "drill" THEN 50 ELSE IF tool = "laser" THEN 10
    ELSE IF tool = "torch" THEN 30 ELSE 0

C28_Users(v, hits) ==
    {a \in Worms \ {v} :
        /\ <<a, v>> \in hits
        /\ worms[a].dig_request \in {"drill", "laser", "torch"}}

RECURSIVE C28_Sum(_, _)
C28_Sum(users, n) ==
    IF n = 0 THEN 0
    ELSE C28_Sum(users, n - 1)
             + (IF n \in users THEN C28_Amount(worms[n].dig_request) ELSE 0)

C28_PlainAlive(v) ==
    /\ ~worms[v].is_dead /\ ~worms[v].is_respawning
    /\ worms[v].spawn_protection <= 0

C28_NoFall == [w \in Worms |-> 0]

C28_ToolDamage ==
    \A dt \in DtSet, hits \in SUBSET (Worms \X Worms) :
    \A solid \in SolidInputs(dt), distance2 \in BlastInputs :
        (\A w \in Worms : \A k \in DOMAIN worms[w].thrown_dynamites :
             ~exploded_this_frame(worms[w].thrown_dynamites[k]))
            => \E after \in {damage_phase(worms, tombstones, dt, C28_NoFall,
                                           hits, solid, distance2,
                                           [w \in Worms |-> None]).worms} :
               \A v \in Worms :
                   after[v].hp =
                       IF C28_PlainAlive(v)
                       THEN Max(0, worms[v].hp
                                       - C28_Sum(C28_Users(v, hits), NumWorms))
                       ELSE worms[v].hp

\* a worm at full health that fired its laser was hit by the other worm's
\* drill, and no other damage was dealt in the tick
C28_Witness ==
    \E v \in Worms : \E a \in Worms \ {v} :
        /\ worms[a].tool_used_this_frame = "drill"
        /\ worms[v].tool_used_this_frame = "laser"
        /\ worms[v].hp = max_hp - DRILL_DAMAGE
        /\ worms[a].hp = max_hp
        /\ Cardinality(damage_log) = 1

(***************************************************************************)
(* C29: the laser's damage footprint is its dig footprint, a capsule of    *)
(* constant width along the segment from the attacker to the target: a     *)
(* worm is damaged by a laser shot only if its reference point is within   *)
(* LASER_WIDTH / 2 of that segment; in particular a worm behind the        *)
(* attacker, on the side opposite to the target, is never damaged.  After  *)
(* a shot that cost worm 2 health, worm 2's point is within half the       *)
(* laser width of the segment.                                             *)
(***************************************************************************)
\* whether the distance of point p to the segment from a to b is at most r:
\* to the nearer end where the foot of the perpendicular lies outside the
\* segment, to the line otherwise
C29_NearSegment(a, b, p, r) ==
    LET dx == b[1] - a[1]
        dy == b[2] - a[2]
        length2 == dx * dx + dy * dy
        along == (p[1] - a[1]) * dx + (p[2] - a[2]) * dy
        to_a2 == (p[1] - a[1]) * (p[1] - a[1]) + (p[2] - a[2]) * (p[2] - a[2])
        to_b2 == (p[1] - b[1]) * (p[1] - b[1]) + (p[2] - b[2]) * (p[2] - b[2])
        cross == dx * (p[2] - a[2]) - dy * (p[1] - a[1])
    IN  IF along <= 0 THEN 4 * to_a2 <= r * r
        ELSE IF along >= length2 THEN 4 * to_b2 <= r * r
        ELSE 4 * cross * cross <= r * r * length2

C29_LaserCapsule ==
    (body.shot /\ worms[2].hp < max_hp)
        => C29_NearSegment(body.head, body.target, body.victim, LASER_WIDTH)

(***************************************************************************)
(* C30: after every tick and every facing change the current aim angle of  *)
(* a worm lies in the half-plane its facing direction points into          *)
(* (cos(angle) has the sign of facing_direction or is 0), also while the   *)
(* angle is interpolated after the worm has turned around without having   *)
(* aimed manually.                                                         *)
(***************************************************************************)
C30_Forward(b) ==
    IF b.facing_direction > 0
    THEN b.tool_current_angle <= QuarterTurn
             /\ b.tool_current_angle >= -QuarterTurn
    ELSE b.tool_current_angle >= QuarterTurn
             \/ b.tool_current_angle <= -QuarterTurn

C30_AimForward == C30_Forward(body)

(***************************************************************************)
(* C31: for each thrown charge exactly one blast crater is dug, at the     *)
(* charge's position in the tick its fuse expires, with the blast          *)
(* footprint (Dirt, Rock and Metal cleared within the blast radius); the   *)
(* ticks after the explosion dig no further crater for the charge and do   *)
(* not move it.  A step in which the charge explodes leaves it where it    *)
(* was and empties exactly the cells within the blast radius of it; every  *)
(* other step leaves the grid alone, a step after the explosion the        *)
(* charge's position too; the charge has one crater when it has exploded   *)
(* and none before.                                                        *)
(***************************************************************************)
C31_Crater(t, x, y) ==
    LET tile_radius == DYNAMITE_RADIUS \div TILE_SIZE
        cx == x \div TILE_SIZE
        cy == (y - UI_HEIGHT) \div TILE_SIZE
    IN  [ty \in Rows |-> [tx \in Columns |->
            IF (tx - cx) * (tx - cx) + (ty - cy) * (ty - cy)
                   <= tile_radius * tile_radius
            THEN EMPTY
            ELSE t[ty][tx]]]

C31_OneCrater ==
    [][/\ body'.dynamite.has_exploded /\ ~body.dynamite.has_exploded
              => /\ tiles' = C31_Crater(tiles, body.dynamite.x,
                                        body.dynamite.y)
                 /\ body'.craters = 1
       /\ ~(body'.dynamite.has_exploded /\ ~body.dynamite.has_exploded)
              => tiles' = tiles /\ body'.craters = body.craters
       /\ (body.dynamite.has_exploded \/ body'.dynamite.has_exploded)
              => /\ body'.dynamite.x = body.dynamite.x
                 /\ body'.dynamite.y = body.dynamite.y
       /\ body'.craters = IF body'.dynamite.has_exploded THEN 1 ELSE 0]_vars

\* a charge that fell out of the grid has exploded below it, and its
\* crater has left cells of the grid solid
C31_Witness ==
    /\ body.dynamite.has_exploded
    /\ body.craters = 1
    /\ body.dynamite.y >= UI_HEIGHT + GridHeight * TILE_SIZE
    /\ \E ty \in Rows, tx \in Columns : tiles[ty][tx] # EMPTY
    /\ \E tx \in Columns : tiles[GridHeight - 1][tx] = EMPTY

(***************************************************************************)
(* C32: the tombstone created at a death holds, for gas and for explosive  *)
(* charges, 20% of the worm's pool at death rounded up to a whole unit,    *)
(* and never more than the pool.  In the step in which a worm dies, each   *)
(* amount of the tombstone appended for it is the least whole number that  *)
(* is at least TOMBSTONE_RESOURCE_PERCENTAGE hundredths of the pool, and   *)
(* is at most the pool.                                                    *)
(***************************************************************************)
C32_RoundedUp(pool) == (pool * TOMBSTONE_RESOURCE_PERCENTAGE + 99) \div 100

C32_Share(v) ==
    LET stone == tombstones'[Len(tombstones')]
    IN  /\ stone.gas_amount = C32_RoundedUp(worms[v].gas)
        /\ stone.gas_amount <= worms[v].gas
        /\ stone.dynamite_amount = C32_RoundedUp(worms[v].dynamite_count)
        /\ stone.dynamite_amount <= worms[v].dynamite_count

C32_TombstoneShare ==
    [][\A v \in Worms :
          /\ ~worms[v].is_respawning
          /\ worms'[v].is_respawning
          /\ Len(tombstones') = Len(tombstones) + 1
          => C32_Share(v)]_vars

(***************************************************************************)
(* C33: a thrown charge's fuse advances only through simulation ticks.     *)
(* The elapsed fuse time of the charge is the sum of the dt of the ticks   *)
(* since its creation (both kept up to DYNAMITE_FUSE_TIME), so it does not *)
(* advance while the game is paused, and a charge that has exploded has    *)
(* been ticked for the whole fuse time.                                    *)
(***************************************************************************)
C33_FuseInTicks ==
    /\ body.dynamite.elapsed = body.ticked
    /\ body.dynamite.has_exploded
           => body.ticked >= DYNAMITE_FUSE_TIME * TimeScale

(***************************************************************************)
(* C34: while a worm is Dying it is not controllable.  A step that finds   *)
(* the first worm Dying and leaves it Dying, a tick or an input event,     *)
(* leaves its position and its velocity as they are, and produces no dig   *)
(* request and no thrown charge and consumes nothing of its pools.         *)
(***************************************************************************)
C34_NotControllable ==
    [][worms[1].is_respawning /\ worms'[1].is_respawning
          => /\ body'.y = body.y
             /\ body'.vel_x = body.vel_x
             /\ body'.vel_y = body.vel_y
             /\ worms'[1].dig_request \in {None, worms[1].dig_request}
             /\ worms'[1].thrown_dynamites = worms[1].thrown_dynamites
             /\ worms'[1].gas >= worms[1].gas
             /\ worms'[1].dynamite_count >= worms[1].dynamite_count
             /\ worms'[1].laser_battery >= worms[1].laser_battery]_vars

(***************************************************************************)
(* C35: a jump trigger takes effect only when the worm is on the ground,   *)
(* can_jump is set and it is not Dying; it takes the worm off the ground   *)
(* and clears can_jump; the worm is on the ground again only through a     *)
(* tick in which it met the ground moving downwards, so every jump trigger *)
(* in between is ignored, also after a wrap or a relocation on death.  A   *)
(* step in which a jump takes effect starts on the ground with can_jump    *)
(* set and the worm not Dying, and ends off the ground with can_jump       *)
(* cleared and the jump velocity; a step that ends on the ground and did   *)
(* not start there is no jump, has no wrap and no death in it and ends     *)
(* with can_jump set and no vertical velocity; a worm off the ground stays *)
(* so through every jump trigger.                                          *)
(***************************************************************************)
C35_Jumps == body'.jumps # body.jumps

C35_NoDoubleJump ==
    [][/\ C35_Jumps
             => /\ body.on_ground /\ body.can_jump
                /\ ~worms[1].is_respawning
                /\ body'.jumps = body.jumps + 1
                /\ ~body'.on_ground /\ ~body'.can_jump
                /\ body'.vel_y = JUMP_VELOCITY * VelUnits
       /\ events' # events /\ ~C35_Jumps => body' = body
       /\ ~body.on_ground /\ body'.on_ground
             => /\ ~C35_Jumps
                /\ events' = events
                /\ body'.can_jump
                /\ body'.vel_y = 0
                /\ body'.wraps = body.wraps
                /\ worms'[1].deaths = worms[1].deaths
                /\ ~worms[1].is_respawning
                /\ check_ground_below(body')
       /\ body'.wraps # body.wraps \/ worms'[1].deaths # worms[1].deaths
             => ~body'.on_ground /\ ~body'.can_jump]_vars

\* the worm has died and been relocated, has come down to the ground
\* again after its respawn and is in the air after a jump
C35_Witness ==
    /\ worms[1].deaths >= 1
    /\ ~worms[1].is_respawning
    /\ body.jumps >= 1
    /\ ~body.on_ground /\ ~body.can_jump
    /\ body.vel_y < 0
    /\ events = MaxEvents

(***************************************************************************)
(* C36: within a level the grid changes only through dig calls and only    *)
(* monotonically.  In every step each cell that changes was solid and is   *)
(* Empty afterwards (so an Empty cell stays Empty), the grid keeps its     *)
(* rows and columns, and a step that changes a cell has made a dig call    *)
(* that changed one: the collision checks, the damage, the looting, the    *)
(* deaths and the respawns of a tick without such a call leave every cell  *)
(* as it is.                                                               *)
(***************************************************************************)
C36_Digs(b) ==
    {k \in DOMAIN b.effects :
        b.effects[k].kind = "dig" /\ b.effects[k].changed}

C36_OnlyDigsEmpty ==
    [][/\ DOMAIN tiles' = Rows
       /\ \A ty \in Rows :
             /\ DOMAIN tiles'[ty] = Columns
             /\ \A tx \in Columns :
                   tiles'[ty][tx] # tiles[ty][tx]
                       => tiles[ty][tx] # EMPTY /\ tiles'[ty][tx] = EMPTY
       /\ tiles' # tiles => C36_Digs(body') # {}
       /\ C36_Digs(body') = {} => tiles' = tiles]_vars

\* a tick has dug Rock away and left solid cells, in a run in which a worm
\* has died
C36_Witness ==
    /\ C36_Digs(body) # {}
    /\ tiles[GridHeight - 1][3] = EMPTY
    /\ \E ty \in Rows, tx \in Columns : tiles[ty][tx] # EMPTY
    /\ \E w \in Worms : worms[w].deaths > 0

(***************************************************************************)
(* C37: the statistics that get_game_stats reports for a worm (kills,      *)
(* deaths, fall deaths, self deaths) never decrease: every step of a       *)
(* match, a tick with its deaths and respawns or a level transition,       *)
(* leaves each of the four counters of each worm at least as high as it    *)
(* was.                                                                    *)
(***************************************************************************)
get_game_stats(ws) ==
    [w \in Worms |-> [kills |-> ws[w].kills,
                      deaths |-> ws[w].deaths,
                      fall_deaths |-> ws[w].fall_deaths,
                      self_deaths |-> ws[w].self_deaths]]

C37_StatsNeverDecrease ==
    [][\A w \in Worms :
          /\ get_game_stats(worms')[w].kills >= get_game_stats(worms)[w].kills
          /\ get_game_stats(worms')[w].deaths
                 >= get_game_stats(worms)[w].deaths
          /\ get_game_stats(worms')[w].fall_deaths
                 >= get_game_stats(worms)[w].fall_deaths
          /\ get_game_stats(worms')[w].self_deaths
                 >= get_game_stats(worms)[w].self_deaths]_vars

(***************************************************************************)
(* C38: a worm that is Dying never deals tool damage.  Whatever state a    *)
(* tick without explosion starts in, whichever worms land and whichever    *)
(* lie in whose footprint: when its _check_tool_damage has returned, the   *)
(* tool uses of the worms that died in the tick (of their fall, or of      *)
(* another worm's tool) have cost no worm health, so a plain Alive worm    *)
(* that did not land has lost at most the amounts of the tools of the      *)
(* surviving users in whose footprint it was, and a worm that died in the  *)
(* tick has earned no kill.                                                *)
(***************************************************************************)
C38_Died(after) ==
    {a \in Worms : ~worms[a].is_respawning /\ after[a].is_respawning}

C38_DyingDealNoDamage ==
    \A dt \in DtSet, hits \in SUBSET (Worms \X Worms) :
    \A fall \in [Worms -> {0} \cup {fall_damage(d) : d \in FallDistances}] :
    \A solid \in SolidInputs(dt), distance2 \in BlastInputs :
        (/\ \A w \in Worms : fall[w] \in FallInputs(w)
         /\ \A w \in Worms : \A k \in DOMAIN worms[w].thrown_dynamites :
                ~exploded_this_frame(worms[w].thrown_dynamites[k]))
            => \E after \in {damage_phase(worms, tombstones, dt, fall, hits,
                                           solid, distance2,
                                           [w \in Worms |-> None]).worms} :
               /\ \A v \in Worms :
                      C28_PlainAlive(v) /\ fall[v] = 0
                          => after[v].hp >=
                                 Max(0, worms[v].hp
                                     - C28_Sum(C28_Users(v, hits)
                                                   \ C38_Died(after),
                                               NumWorms))
               /\ \A a \in C38_Died(after) : after[a].kills = worms[a].kills

(***************************************************************************)
(* C39: item collection conserves items.  A step in which the item leaves  *)
(* Terrain.items credits the worm with it: a gas bottle adds the bottle    *)
(* amount to gas, up to MAX_GAS, and leaves the charge count; a dynamite   *)
(* item adds exactly 1 to the charge count and leaves gas; a step in which *)
(* no item leaves credits nothing.                                         *)
(***************************************************************************)
C39_ItemsConserved ==
    [][/\ (body.present /\ ~body'.present /\ body.item.type = GAS_BOTTLE)
             => /\ worms'[1].gas = Min(MAX_GAS,
                                       worms[1].gas + GAS_BOTTLE_AMOUNT)
                /\ worms'[1].dynamite_count = worms[1].dynamite_count
       /\ (body.present /\ ~body'.present /\ body.item.type = DYNAMITE)
             => /\ worms'[1].dynamite_count = worms[1].dynamite_count + 1
                /\ worms'[1].gas = worms[1].gas
       /\ body'.present = body.present
             => /\ worms'[1].gas = worms[1].gas
                /\ worms'[1].dynamite_count = worms[1].dynamite_count]_vars

(***************************************************************************)
(* C40: a thrown charge launched from a position that is not solid is      *)
(* never inside solid terrain at the end of a tick: a tick moves it only   *)
(* to a position that is not solid, and where its next position is solid   *)
(* it keeps its position, with its velocity zeroed, while its fuse goes    *)
(* on.  The charge's position is never solid, and a tick before the end of *)
(* the fuse whose straight step from the charge's position would end in    *)
(* solid terrain leaves the position, zeroes both velocities and adds its  *)
(* dt to the elapsed fuse time.                                            *)
(***************************************************************************)
C40_Solid(t, x, y) == get_tile(t, x, y) # EMPTY

C40_Rests ==
    /\ body'.dynamite.x = body.dynamite.x
    /\ body'.dynamite.y = body.dynamite.y
    /\ body'.dynamite.vel_x = 0
    /\ body'.dynamite.vel_y = 0

C40_NeverInSolid ==
    [][/\ ~C40_Solid(tiles', body'.dynamite.x, body'.dynamite.y)
       /\ \A dt \in DtSet :
             (/\ ~body.paused
              /\ body'.ticked = body.ticked + dt
              /\ body'.dynamite.elapsed < DYNAMITE_FUSE_TIME * TimeScale
              /\ C40_Solid(tiles, body.dynamite.x + body.dynamite.vel_x * dt,
                           body.dynamite.y + body.dynamite.vel_y * dt))
                 => /\ C40_Rests
                    /\ body'.dynamite.elapsed = body.dynamite.elapsed + dt]_vars

\* a charge has met solid terrain in flight and rests beside it, its fuse
\* still burning
C40_Witness ==
    /\ body.dynamite.hit_terrain
    /\ ~body.dynamite.has_exploded
    /\ body.dynamite.vel_x = 0 /\ body.dynamite.vel_y = 0
    /\ body.ticked > 0
    /\ ~C40_Solid(tiles, body.dynamite.x, body.dynamite.y)

====
